---- MODULE Spec2Model ----
(***************************************************************************)
(* Shadow-RC: the control core of a remote-operated droid.                 *)
(*                                                                         *)
(* The model follows the Arduino sketch: loop() calls updateComboHandler,  *)
(* updateMP3Handler and the loop function of the current mode; the pulse   *)
(* decoder runs as interrupt handlers.  Every handler is one action.  The  *)
(* radio receivers are the environment: sig[ch] is the width in            *)
(* microseconds of the pulses a channel carries (0: no pulse, pulseIn      *)
(* times out), now is the value of millis().                               *)
(***************************************************************************)
EXTENDS Integers, Sequences, FiniteSets, TLC

(***************************************************************************)
(* Bounds of the model.                                                    *)
(***************************************************************************)
\* SpecCombo: the clock stops advancing MaxComboMs milliseconds after setup()
MaxComboMs == 1200

(***************************************************************************)
(* ComboHandler.cpp (src/ManualMode.cpp, second half): thresholds.         *)
(***************************************************************************)
HIGH_THRESHOLD == 1700
LOW_THRESHOLD == 1300
COMBO_DOWN_MIN == 900
COMBO_DOWN_MAX == 1300
COMBO_UP_MIN == 1700
COMBO_UP_MAX == 2100
COMBO_LEFT_MAX == 1300
COMBO_RIGHT_MIN == 1700
comboResetDelay == 1000
\* pulse width a momentary button (CH6) must reach to fire
MOMENTARY_MIN == 1900

\* millis() when setup() returns: delay(1000) in setupMP3Handler, delay(1500)
\* in setup(), delay(100) and delay(10) in setupManualMode
SetupMillis == 2610

\* millis() and the time stamps are unsigned long: 32 bits, arithmetic modulo
\* 2^32.  A value is written as the integer of -2^31 .. 2^31 - 1 with the same
\* 32 bits: t below 2^31 as t, t from 2^31 on as t - 2^32 (2^32 - 300 as -300).
LongMax == 2147483647
UnsignedLong(x) ==
  IF x > LongMax THEN x - LongMax - LongMax - 2
  ELSE IF x < -LongMax - 1 THEN x + LongMax + LongMax + 2
  ELSE x
\* a < b between two unsigned long values
ULess(a, b) == IF (a < 0) = (b < 0) THEN a < b ELSE b < 0

Sticks == {"ch1a", "ch2a", "ch1b", "ch2b"}
TogglesA == {"ch3a", "ch4a", "ch5a"}
TogglesB == {"ch3b", "ch4b", "ch5b"}
Toggles == TogglesA \cup TogglesB
Momentaries == {"ch6a", "ch6b"}
Chans == Sticks \cup Toggles \cup Momentaries
Dirs == {"down", "up", "left", "right"}

VARIABLES
  \* environment
  sig,                \* pulse width carried by each receiver channel
  now,                \* millis()
  \* ComboHandler.cpp
  currentCombo, currentMode, lastCombo, lastMode, comboTimestamp,
  last_CH,            \* last_CH3 .. last_CH5B, by channel
  hasTriggered_CH6,   \* hasTriggered_CH6_A_DOWN .. hasTriggered_CH6_B_RIGHT
  mp3TriggersEnabled, \* MP3Handler.cpp suppression flag (inverted)
  marc,               \* command the last updateComboHandler call sent to the
                      \* MarcDuino (Serial3), "" if none
  \* PWMInputHandler.cpp
  pwmIn,              \* ch1_value, ch2_value, ch1b_value and their ch*_start
  attached,           \* the channels whose pin has an interrupt handler attached
  rd,                 \* the read of the channel values the main loop is in
  \* MP3Handler.cpp
  lastMP3_CH,         \* lastMP3_CH3A .. lastMP3_CH5B, by channel
  hasTriggeredMP3_CH6,\* hasTriggeredMP3_CH6A, hasTriggeredMP3_CH6B
  lastTriggerTime,    \* the static of checkMomentary
  mp3out,             \* what the last call of updateMP3Handler did
  \* the static variables of the mode files
  manual, carpet, hybrid, automated,
  out,                \* what the last call of a mode loop did
  pc                  \* the next call of loop()

comboVars == <<currentCombo, currentMode, lastCombo, lastMode, comboTimestamp,
               last_CH, hasTriggered_CH6, mp3TriggersEnabled, marc>>
envVars == <<sig, now>>
mp3Vars == <<lastMP3_CH, hasTriggeredMP3_CH6, lastTriggerTime, mp3out>>
isrVars == <<attached, rd>>
loopVars == <<manual, carpet, hybrid, automated, out, mp3Vars, isrVars>>
modeVars == <<pwmIn, loopVars>>
vars == <<envVars, comboVars, modeVars, pc>>

(***************************************************************************)
(* pulseIn(pin, HIGH, timeout): the width of the next pulse, 0 on timeout. *)
(***************************************************************************)
pulseIn(ch) == sig[ch]

(***************************************************************************)
(* updateComboHandler: joystick classification (both controllers OR-ed).   *)
(***************************************************************************)
comboDown(a2, b2) ==
  (a2 >= COMBO_DOWN_MIN /\ a2 <= COMBO_DOWN_MAX) \/ (b2 >= COMBO_DOWN_MIN /\ b2 <= COMBO_DOWN_MAX)
comboUp(a2, b2) ==
  (a2 >= COMBO_UP_MIN /\ a2 <= COMBO_UP_MAX) \/ (b2 >= COMBO_UP_MIN /\ b2 <= COMBO_UP_MAX)
comboLeft(a1, b1) ==
  (a1 > 0 /\ a1 <= COMBO_LEFT_MAX) \/ (b1 > 0 /\ b1 <= COMBO_LEFT_MAX)
comboRight(a1, b1) ==
  (a1 > 0 /\ a1 >= COMBO_RIGHT_MIN) \/ (b1 > 0 /\ b1 >= COMBO_RIGHT_MIN)

HeldDirs ==
  [down  |-> comboDown(pulseIn("ch2a"), pulseIn("ch2b")),
   up    |-> comboUp(pulseIn("ch2a"), pulseIn("ch2b")),
   left  |-> comboLeft(pulseIn("ch1a"), pulseIn("ch1b")),
   right |-> comboRight(pulseIn("ch1a"), pulseIn("ch1b"))]

(***************************************************************************)
(* detectToggleCombo: c is [combo, fired], the running currentCombo and    *)
(* whether a detector has assigned it in this call.                        *)
(***************************************************************************)
ToggleState(pwm) == IF pwm > HIGH_THRESHOLD THEN 1 ELSE 0

ToggleEdge(pwm, lastState) == pwm > 0 /\ ToggleState(pwm) # lastState

\* variant in which direction up gets the offset of direction left
detectToggleCombo_UpAsLeft(c, pwm, lastState, baseCombo, d) ==
  IF ToggleEdge(pwm, lastState)
  THEN IF d.down THEN [combo |-> baseCombo, fired |-> TRUE]
       ELSE IF d.up THEN [combo |-> baseCombo + 8, fired |-> TRUE]
       ELSE IF d.left THEN [combo |-> baseCombo + 8, fired |-> TRUE]
       ELSE IF d.right THEN [combo |-> baseCombo + 12, fired |-> TRUE]
       ELSE c
  ELSE c

detectToggleCombo(c, pwm, lastState, baseCombo, d) ==
  IF ToggleEdge(pwm, lastState)
  THEN IF d.down THEN [combo |-> baseCombo, fired |-> TRUE]
       ELSE IF d.up THEN [combo |-> baseCombo + 4, fired |-> TRUE]
       ELSE IF d.left THEN [combo |-> baseCombo + 8, fired |-> TRUE]
       ELSE IF d.right THEN [combo |-> baseCombo + 12, fired |-> TRUE]
       ELSE c
  ELSE c

ToggleLast(pwm, lastState) ==
  IF ToggleEdge(pwm, lastState) THEN ToggleState(pwm) ELSE lastState

(***************************************************************************)
(* detectMomentaryCombo: four independent ifs, the last that fires wins;   *)
(* trig is the record of the four hasTriggered flags of the button.        *)
(***************************************************************************)
MomentaryFires(pwm, held, trig) == pwm > 0 /\ held /\ pwm >= MOMENTARY_MIN /\ ~trig

detectMomentaryCombo(c, pwm, trig, baseCombo, d) ==
  LET c1 == IF MomentaryFires(pwm, d.down, trig.down)
            THEN [combo |-> baseCombo, fired |-> TRUE] ELSE c
      c2 == IF MomentaryFires(pwm, d.up, trig.up)
            THEN [combo |-> baseCombo + 4, fired |-> TRUE] ELSE c1
      c3 == IF MomentaryFires(pwm, d.left, trig.left)
            THEN [combo |-> baseCombo + 8, fired |-> TRUE] ELSE c2
  IN  IF MomentaryFires(pwm, d.right, trig.right)
      THEN [combo |-> baseCombo + 12, fired |-> TRUE] ELSE c3

MomentaryTrig(pwm, trig, d) ==
  IF pwm > 0 /\ pwm < LOW_THRESHOLD
  THEN [x \in Dirs |-> FALSE]
  ELSE [x \in Dirs |-> trig[x] \/ MomentaryFires(pwm, d[x], trig[x])]

(***************************************************************************)
(* updateComboHandler, after the detectors.                                *)
(***************************************************************************)
\* variant of "Mode Switching" without the upper bound of the mode-select range
IsModeSwitch_NoUpperBound(combo, mode) == combo >= 1 /\ combo # mode

\* variant of "Mode Switching" without the comparison to the current mode
IsModeSwitch_AnyMode(combo, mode) == combo >= 1 /\ combo <= 4

\* variant of "Mode Switching" that takes the suppression combos 5..8 as well
IsModeSwitch_UpTo8(combo, mode) == combo >= 1 /\ combo <= 8 /\ combo # mode

\* "Mode Switching": the combo is a mode-select for another mode
IsModeSwitch(combo, mode) == combo >= 1 /\ combo <= 4 /\ combo # mode

\* "Handle Combos": the whitelist of the current mode
ComboPermitted(mode, combo) ==
  \/ (mode = 1 \/ mode = 4) /\ combo <= 8
  \/ mode = 3 /\ combo <= 16
  \/ mode = 2

\* "Handle Combos" is entered for an action combo that differs from lastCombo
ComboIsNew(combo, last) == combo # last /\ combo > 4

\* the switch over currentCombo: the MarcDuino command sent
MarcCommand(combo) ==
  CASE combo = 5 -> ":SE03"
    [] combo = 6 -> ":SE00"
    [] combo = 7 -> ":SE02"
    [] combo = 8 -> ":SE01"
    [] combo = 9 -> ":SE10"
    [] combo = 10 -> ":SE06"
    [] OTHER -> ""

\* the switch over currentCombo: disableMP3Triggers / enableMP3Triggers
ComboSuppression(combo, enabled) ==
  IF combo \in {5, 7, 8} THEN FALSE
  ELSE IF combo = 6 THEN TRUE
  ELSE enabled

\* variant of the watchdog that waits twice the reset delay
ComboExpired_Late(combo, t, stamp) ==
  combo > 4 /\ ULess(2 * comboResetDelay, UnsignedLong(t - stamp))

\* the watchdog at the end of updateComboHandler
ComboExpired(combo, t, stamp) ==
  combo > 4 /\ ULess(comboResetDelay, UnsignedLong(t - stamp))

\* the baseCombo argument of the detector call of each button
baseCombo(ch) ==
  CASE ch = "ch3a" -> 1
    [] ch = "ch4a" -> 2
    [] ch = "ch5a" -> 3
    [] ch = "ch6a" -> 4
    [] ch = "ch3b" -> 17
    [] ch = "ch4b" -> 18
    [] ch = "ch5b" -> 19
    [] ch = "ch6b" -> 20

\* the eight detector calls of updateComboHandler, in order, from currentCombo:
\* [combo |-> currentCombo after them, fired |-> whether one assigned it]
Detectors ==
  LET d == HeldDirs
      c0 == [combo |-> currentCombo, fired |-> FALSE]
      c1 == detectToggleCombo(c0, pulseIn("ch3a"), last_CH["ch3a"], baseCombo("ch3a"), d)
      c2 == detectToggleCombo(c1, pulseIn("ch4a"), last_CH["ch4a"], baseCombo("ch4a"), d)
      c3 == detectToggleCombo(c2, pulseIn("ch5a"), last_CH["ch5a"], baseCombo("ch5a"), d)
      c4 == detectMomentaryCombo(c3, pulseIn("ch6a"), hasTriggered_CH6["ch6a"], baseCombo("ch6a"), d)
      c5 == detectToggleCombo(c4, pulseIn("ch3b"), last_CH["ch3b"], baseCombo("ch3b"), d)
      c6 == detectToggleCombo(c5, pulseIn("ch4b"), last_CH["ch4b"], baseCombo("ch4b"), d)
      c7 == detectToggleCombo(c6, pulseIn("ch5b"), last_CH["ch5b"], baseCombo("ch5b"), d)
  IN  detectMomentaryCombo(c7, pulseIn("ch6b"), hasTriggered_CH6["ch6b"], baseCombo("ch6b"), d)

updateComboHandler ==
  LET d == HeldDirs
      c8 == Detectors
      switch == IsModeSwitch(c8.combo, currentMode)
      mode1 == IF switch THEN c8.combo ELSE currentMode
      combo1 == IF switch THEN 0 ELSE c8.combo
      handle == ComboIsNew(combo1, lastCombo)
      accept == handle /\ ComboPermitted(mode1, combo1)
      combo2 == IF handle /\ ~accept THEN 0 ELSE combo1
      stamp == IF accept THEN now ELSE comboTimestamp
  IN  /\ last_CH' = [ch \in Toggles |-> ToggleLast(pulseIn(ch), last_CH[ch])]
      /\ hasTriggered_CH6' =
           [ch \in Momentaries |-> MomentaryTrig(pulseIn(ch), hasTriggered_CH6[ch], d)]
      /\ currentMode' = mode1
      /\ lastMode' = mode1   \* "Debug Mode Print": lastMode = currentMode
      /\ lastCombo' = IF handle THEN combo2 ELSE lastCombo
      /\ comboTimestamp' = stamp
      /\ mp3TriggersEnabled' =
           IF accept THEN ComboSuppression(combo1, mp3TriggersEnabled)
           ELSE mp3TriggersEnabled
      /\ marc' = IF accept THEN MarcCommand(combo1) ELSE ""
      /\ currentCombo' = IF ComboExpired(combo2, now, stamp) THEN 0 ELSE combo2

(***************************************************************************)
(* isComboModeActive (src/ManualMode.cpp, ComboHandler part): the kill     *)
(* condition of a mode, read from the four sticks with pulseIn.            *)
(***************************************************************************)
isComboModeActive(mode) ==
  LET ch1a == pulseIn("ch1a")
      ch2a == pulseIn("ch2a")
      ch1b == pulseIn("ch1b")
      ch2b == pulseIn("ch2b")
      bDown == ch2b >= COMBO_DOWN_MIN /\ ch2b <= COMBO_DOWN_MAX
      bUp == ch2b >= COMBO_UP_MIN /\ ch2b <= COMBO_UP_MAX
      bLeft == ch1b > 0 /\ ch1b <= COMBO_LEFT_MAX
      bRight == ch1b > 0 /\ ch1b >= COMBO_RIGHT_MIN
      aDown == ch2a >= COMBO_DOWN_MIN /\ ch2a <= COMBO_DOWN_MAX
      aUp == ch2a >= COMBO_UP_MIN /\ ch2a <= COMBO_UP_MAX
      aLeft == ch1a > 0 /\ ch1a <= COMBO_LEFT_MAX
      aRight == ch1a > 0 /\ ch1a >= COMBO_RIGHT_MIN
  IN  CASE mode = 1 -> bDown \/ bUp
        [] mode = 2 -> aDown \/ aUp \/ aLeft \/ aRight \/ bDown \/ bUp \/ bLeft \/ bRight
        [] mode = 3 -> bDown \/ bUp \/ bLeft \/ bRight
        [] mode = 4 -> bDown \/ bLeft \/ bRight
        [] OTHER -> FALSE

(***************************************************************************)
(* MP3Handler.cpp (src/unnamed/part_005, first half): button-triggered     *)
(* audio.  updateMP3Handler is called by loop() after updateComboHandler;  *)
(* it writes only its own statics and the audio sink.  Its                 *)
(* delay(DEBOUNCE_DELAY) is time that passes between two calls.            *)
(***************************************************************************)
VALID_PWM_MIN == 900
VALID_PWM_MAX == 2200

\* BANK_HAPPY_START .. BANK_LINES_END, by the button that plays the bank
MP3Bank(ch) ==
  CASE ch = "ch3a" -> [lo |-> 1, hi |-> 16]
    [] ch = "ch4a" -> [lo |-> 31, hi |-> 35]
    [] ch = "ch5a" -> [lo |-> 61, hi |-> 76]
    [] ch = "ch6a" -> [lo |-> 91, hi |-> 103]
    [] ch = "ch3b" -> [lo |-> 121, hi |-> 123]
    [] ch = "ch4b" -> [lo |-> 151, hi |-> 156]
    [] ch = "ch5b" -> [lo |-> 181, hi |-> 186]
    [] OTHER -> [lo |-> 211, hi |-> 212]

\* the values the model lets random(startFile, endFile + 1) return
ButtonTracks(ch) == {MP3Bank(ch).lo, MP3Bank(ch).hi}

\* the order of the eight checks of updateMP3Handler
ButtonOrder == <<"ch3a", "ch4a", "ch5a", "ch6a", "ch3b", "ch4b", "ch5b", "ch6b">>

\* recorded: the toggles whose level the call took without playing a track
\* ("if (lastState == -1) { lastState = newState; return; }")
MP3None ==
  [ran |-> FALSE, blocked |-> FALSE, comboActive |-> FALSE, tracks |-> <<>>,
   recorded |-> {}]

\* "if (pwm == 0 || pwm < VALID_PWM_MIN || pwm > VALID_PWM_MAX) return;"
ValidPWM(pwm) == ~(pwm = 0 \/ pwm < VALID_PWM_MIN \/ pwm > VALID_PWM_MAX)

\* HIGH is 1, LOW is 0
ToggleNewState(pwm, lastState) ==
  IF pwm > HIGH_THRESHOLD THEN 1 ELSE IF pwm < LOW_THRESHOLD THEN 0 ELSE lastState

\* checkToggleAnyEdge: [last |-> lastState after the call, play |-> a track is played]
checkToggleAnyEdge(pwm, lastState) ==
  IF ~ValidPWM(pwm) THEN [last |-> lastState, play |-> FALSE]
  ELSE IF lastState = -1
  THEN [last |-> ToggleNewState(pwm, lastState), play |-> FALSE]
  ELSE IF ToggleNewState(pwm, lastState) # lastState
  THEN [last |-> ToggleNewState(pwm, lastState), play |-> TRUE]
  ELSE [last |-> lastState, play |-> FALSE]

\* checkMomentary at time t: [trig |-> hasTriggered, last |-> lastTriggerTime
\* after the call, play |-> a track is played]
checkMomentary(pwm, hasTriggered, lastTrigger, t) ==
  LET fire == pwm > HIGH_THRESHOLD /\ ~hasTriggered
      trig1 == hasTriggered \/ fire
      last1 == IF fire THEN t ELSE lastTrigger
  IN  [trig |-> IF trig1 /\ t - last1 > 50 THEN FALSE ELSE trig1,
       last |-> last1, play |-> fire]

\* variant of the gate that leaves the statics as they are while blocked
BlockedLast_Keep(lastState) == lastState

\* "lastMP3_CH3A = lastMP3_CH4A = ... = -1;" while the handler is blocked
BlockedLast(lastState) == -1

\* variant of the gate that looks at the kill condition only
MP3Blocked_KillOnly(enabled, comboActive) == comboActive

\* "if (!mp3TriggersEnabled || isComboModeActive(currentMode))"
MP3Blocked(enabled, comboActive) == ~enabled \/ comboActive

updateMP3Handler ==
  LET comboActive == isComboModeActive(currentMode)
      blocked == MP3Blocked(mp3TriggersEnabled, comboActive)
      tog == [ch \in Toggles |-> checkToggleAnyEdge(pulseIn(ch), lastMP3_CH[ch])]
      m6a == checkMomentary(pulseIn("ch6a"), hasTriggeredMP3_CH6["ch6a"],
                            lastTriggerTime, now)
      m6b == checkMomentary(pulseIn("ch6b"), hasTriggeredMP3_CH6["ch6b"], m6a.last, now)
      plays == [ch \in Toggles \cup Momentaries |->
                  IF ch \in Toggles THEN tog[ch].play
                  ELSE IF ch = "ch6a" THEN m6a.play ELSE m6b.play]
      played == SelectSeq(ButtonOrder, LAMBDA ch : plays[ch])
  IN  IF blocked
      THEN /\ lastMP3_CH' = [ch \in Toggles |-> BlockedLast(lastMP3_CH[ch])]
           /\ hasTriggeredMP3_CH6' = [ch \in Momentaries |-> FALSE]
           /\ mp3out' = [ran |-> TRUE, blocked |-> TRUE, comboActive |-> comboActive,
                         tracks |-> <<>>, recorded |-> {}]
           /\ UNCHANGED lastTriggerTime
      ELSE /\ lastMP3_CH' = [ch \in Toggles |-> tog[ch].last]
           /\ hasTriggeredMP3_CH6' = [ch \in Momentaries |->
                                        IF ch = "ch6a" THEN m6a.trig ELSE m6b.trig]
           /\ lastTriggerTime' = m6b.last
           /\ \E track \in [{ch \in Toggles \cup Momentaries : plays[ch]} ->
                              UNION {ButtonTracks(ch) : ch \in Toggles \cup Momentaries}] :
                /\ \A ch \in DOMAIN track : track[ch] \in ButtonTracks(ch)
                /\ mp3out' = [ran |-> TRUE, blocked |-> FALSE, comboActive |-> comboActive,
                              tracks |-> [i \in 1..Len(played) |-> track[played[i]]],
                              recorded |-> {ch \in Toggles : lastMP3_CH[ch] = -1
                                                              /\ tog[ch].last # -1}]

(***************************************************************************)
(* PWMInputHandler.cpp: the interrupt handlers of the three stick channels *)
(* the mode loops read.  A pulse of width sig[ch] arrives: ch*_rise takes  *)
(* its start time, ch*_fall publishes its width (no validation).  Times    *)
(* are kept in milliseconds.                                               *)
(***************************************************************************)
IsrChans == {"ch1a", "ch2a", "ch1b"}

\* "ch1_value = micros() - ch1_start;": an unsigned long stored in a 16-bit int
ToInt16(w) == ((w + 32768) % 65536) - 32768

\* ch1_rise and ch1_fall (ch2_, ch1b_) for a pulse of width w starting at t
ch_pulse(p, ch, w, t) == [p EXCEPT !.value[ch] = ToInt16(w), !.start[ch] = t]

\* setupPWMInputs(): CH1 and CH2 are attached in every mode, CH1B in Manual (1)
\* and Carpet (4); nothing is detached
setupPWMInputs(att, mode) ==
  att \cup {"ch1a", "ch2a"} \cup (IF mode \in {1, 4} THEN {"ch1b"} ELSE {})

\* The main loop reads a channel value, a 16-bit int on an 8-bit processor, as
\* two byte loads with interrupts enabled.  rd.first is the byte loaded first
\* ("none" outside a read), rd.old the values when it was loaded.
U16(v) == (v + 65536) % 65536
HighByte(v) == U16(v) \div 256
LowByte(v) == U16(v) % 256
ReadNone == [first |-> "none", old |-> [ch \in IsrChans |-> 0]]

\* the value the main loop obtains for "ch1_value" (ch2_value, ch1b_value)
ch_value(ch) ==
  CASE rd.first = "lo" -> ToInt16(HighByte(pwmIn.value[ch]) * 256 + LowByte(rd.old[ch]))
    [] rd.first = "hi" -> ToInt16(HighByte(rd.old[ch]) * 256 + LowByte(pwmIn.value[ch]))
    [] OTHER -> pwmIn.value[ch]

getPWMValue_CH1A == ch_value("ch1a")
getPWMValue_CH2A == ch_value("ch2a")
getPWMValue_CH1B == ch_value("ch1b")

(***************************************************************************)
(* Arduino arithmetic.                                                     *)
(***************************************************************************)
abs(x) == IF x < 0 THEN -x ELSE x

\* C division: truncation towards zero
cdiv(a, b) == IF a >= 0 THEN a \div b ELSE -((-a) \div b)

constrain(x, lo, hi) == IF x < lo THEN lo ELSE IF x > hi THEN hi ELSE x

map(x, in_min, in_max, out_min, out_max) ==
  cdiv((x - in_min) * (out_max - out_min), in_max - in_min) + out_min

\* 10^6 * (a / 127.0)^1.3 for the stick deflections the receivers of the
\* model produce (centre, 80 and 100 of 127, full)
Pow13 ==
  [a \in {0, 80, 100, 127} |->
     CASE a = 0 -> 0 [] a = 80 -> 548368 [] a = 100 -> 732917 [] OTHER -> 1000000]

\* variant of applyExpoCurve that does not scale to the limit
applyExpoCurve_NoLimit(input, curve10, limit) == input

\* applyExpoCurve: (int)(pow(abs(input) / 127.0, curve) * limit), signed;
\* curve10 is the curve in tenths (1 and 1.3 are the configured curves)
applyExpoCurve(input, curve10, limit) ==
  LET a == abs(input)
      curved == IF curve10 = 10 THEN (a * limit) \div 127
                ELSE (Pow13[a] * limit) \div 1000000
  IN  IF input >= 0 THEN curved ELSE -curved

(***************************************************************************)
(* The safety arbiter of the mode loops.                                   *)
(***************************************************************************)
\* variant of the kill override that keeps the value
KillOverride_Keep(killActive, v) == v

\* "if (killActive) { lastDrive = 0; lastTurn = 0; curvedDome = 0; }"
KillOverride(killActive, v) == IF killActive THEN 0 ELSE v

\* "if (now - lastCommandTime > motorTimeoutMs) last = 0"
CommandTimeout(t, lastCommandTime, timeoutMs, v) ==
  IF t - lastCommandTime > timeoutMs THEN 0 ELSE v

\* variant of the kill-switch log that prints on every tick with kill active
KillLog_EveryTick(killActive, lastKillState, debug, active, released) ==
  IF killActive /\ debug THEN <<active>> ELSE <<>>

\* the kill-switch line a tick prints
KillLog(killActive, lastKillState, debug, active, released) ==
  IF killActive # lastKillState /\ debug
  THEN <<IF killActive THEN active ELSE released>>
  ELSE <<>>

OutNone ==
  [mode |-> 0, ran |-> FALSE, kill |-> FALSE, drive |-> 0, turn |-> 0,
   dome |-> <<>>, pin46 |-> <<>>, log |-> <<>>, audio |-> <<>>]

(***************************************************************************)
(* ManualMode.cpp and CarpetMode.cpp (src/unnamed/part_005): the two files *)
(* hold the same loop with their own tunable settings and their own static *)
(* variables.                                                              *)
(***************************************************************************)
ManualSettings ==
  [DEBUG_MODE |-> TRUE, expoCurve |-> 10, speedLimit |-> 25, deadZone |-> 0,
   domeDeadZone |-> 0, fineControlMultiplier |-> 2, domeSpeedLimit |-> 100,
   domeFlickMinDuration |-> 40, domeFlickThreshold |-> 5, maxFlickSpeed |-> 20,
   motorTimeoutMs |-> 50, frameIntervalMicros |-> 5000,
   killMode |-> 1]      \* "bool killActive = isComboModeActive(1);"

CarpetSettings ==
  [DEBUG_MODE |-> FALSE, expoCurve |-> 13, speedLimit |-> 50, deadZone |-> 2,
   domeDeadZone |-> 0, fineControlMultiplier |-> 2, domeSpeedLimit |-> 100,
   domeFlickMinDuration |-> 40, domeFlickThreshold |-> 5, maxFlickSpeed |-> 20,
   motorTimeoutMs |-> 50, frameIntervalMicros |-> 5000,
   killMode |-> 1]      \* "bool killActive = isComboModeActive(1);"

\* the static variables of ManualMode.cpp, and of CarpetMode.cpp
StickStatics ==
  [lastFrameMicros |-> 0, domeInput |-> 0, currentDomeSpeed |-> 0,
   lastSentDomeSpeed |-> 0, lastDrive |-> 0, lastTurn |-> 0, savedTurnSpeed |-> 0,
   previousDomeMillis |-> 0, lastDriveCommandTime |-> 0, lastTurnCommandTime |-> 0,
   domeStartTime |-> 0, domeFlickActive |-> FALSE, wasTurnInputActive |-> FALSE,
   lastKillState |-> FALSE]

\* the frame limiter at the head of the loop: "if (nowMicros - lastFrameMicros
\* < frameIntervalMicros) return;"
FrameSkipped(s, p) == now * 1000 - s.lastFrameMicros < p.frameIntervalMicros

\* one tick of loopManualMode / loopCarpetMode past the frame limiter, from the
\* statics s with the settings p: [s |-> the statics after it, o |-> what it did]
StickTick(s, p, m) ==
  LET mappedTurn0 == map(constrain(getPWMValue_CH1A, 1000, 2000), 1000, 2000, -127, 127)
      mappedDrive0 == map(constrain(getPWMValue_CH2A, 1000, 2000), 1000, 2000, -127, 127)
      constrainedDome == constrain(getPWMValue_CH1B, 1000, 2000)
      domeInput == IF constrainedDome >= 1500
                   THEN map(constrainedDome, 1500, 2000, 0, 100)
                   ELSE map(constrainedDome, 1000, 1500, -100, 0)
      mappedDrive == IF abs(mappedDrive0) <= p.deadZone THEN 0 ELSE mappedDrive0
      mappedTurn1 == IF abs(mappedTurn0) <= p.deadZone THEN 0 ELSE mappedTurn0
      mappedTurn == IF abs(mappedDrive) > 40
                    THEN constrain(mappedTurn1, -100, 100) ELSE mappedTurn1
      rawCurvedDome == applyExpoCurve(domeInput, p.expoCurve, p.domeSpeedLimit)
      curvedDome0 == IF s.domeFlickActive THEN rawCurvedDome
                     ELSE rawCurvedDome * p.fineControlMultiplier
      curvedDrive == applyExpoCurve(mappedDrive, p.expoCurve, p.speedLimit)
      curvedTurn == applyExpoCurve(mappedTurn, p.expoCurve, p.speedLimit)
      \* Drive / Turn Logic
      lastDriveCommandTime == now
      lastTurn1 == IF mappedTurn = 0 THEN 0 ELSE curvedTurn
      lastTurnCommandTime == IF mappedTurn = 0 THEN s.lastTurnCommandTime ELSE now
      \* Kill Switch
      killActive == isComboModeActive(p.killMode)
      log == KillLog(killActive, s.lastKillState, p.DEBUG_MODE,
                     "[KILL SWITCH ACTIVE]", "[KILL SWITCH RELEASED]")
      lastDrive2 == KillOverride(killActive, curvedDrive)
      lastTurn2 == KillOverride(killActive, lastTurn1)
      curvedDome == KillOverride(killActive, curvedDome0)
      \* Dome Logic (with Flick Control)
      inDeadZone == abs(domeInput) < p.domeDeadZone
      flickHeld == s.domeFlickActive /\ now - s.domeStartTime < p.domeFlickMinDuration
      flick == abs(curvedDome) >= p.domeFlickThreshold
      currentDomeSpeed ==
        IF inDeadZone
        THEN IF flickHeld
             THEN constrain(s.lastSentDomeSpeed, -p.maxFlickSpeed, p.maxFlickSpeed)
             ELSE 0
        ELSE curvedDome
      domeFlickActive == IF inDeadZone THEN flickHeld ELSE s.domeFlickActive \/ flick
      domeStartTime == IF ~inDeadZone /\ flick THEN now ELSE s.domeStartTime
      \* Safety Timeout
      lastDrive == CommandTimeout(now, lastDriveCommandTime, p.motorTimeoutMs, lastDrive2)
      lastTurn == CommandTimeout(now, lastTurnCommandTime, p.motorTimeoutMs, lastTurn2)
      \* Motor Outputs
      sendDome == currentDomeSpeed # s.lastSentDomeSpeed
  IN  [s |-> [lastFrameMicros |-> now * 1000, domeInput |-> domeInput,
              currentDomeSpeed |-> currentDomeSpeed,
              lastSentDomeSpeed |-> currentDomeSpeed,
              lastDrive |-> lastDrive, lastTurn |-> lastTurn,
              savedTurnSpeed |-> IF mappedTurn = 0 THEN s.savedTurnSpeed ELSE curvedTurn,
              previousDomeMillis |-> IF sendDome THEN now ELSE s.previousDomeMillis,
              lastDriveCommandTime |-> lastDriveCommandTime,
              lastTurnCommandTime |-> lastTurnCommandTime,
              domeStartTime |-> domeStartTime, domeFlickActive |-> domeFlickActive,
              wasTurnInputActive |-> mappedTurn # 0,
              lastKillState |-> killActive],
       o |-> [mode |-> m, ran |-> TRUE, kill |-> killActive,
              drive |-> lastDrive, turn |-> lastTurn,
              dome |-> IF sendDome THEN <<currentDomeSpeed>> ELSE <<>>,
              pin46 |-> <<>>, log |-> log, audio |-> <<>>]]

\* a call the frame limiter returns from: nothing is evaluated or sent
SkippedOut(m) == [OutNone EXCEPT !.mode = m, !.kill = out.kill]

loopManualMode ==
  /\ currentMode = 1
  /\ IF FrameSkipped(manual, ManualSettings)
     THEN manual' = manual /\ out' = SkippedOut(1)
     ELSE LET r == StickTick(manual, ManualSettings, 1)
          IN  manual' = r.s /\ out' = r.o
  /\ UNCHANGED <<carpet, hybrid, automated>>

loopCarpetMode ==
  /\ currentMode = 4
  /\ IF FrameSkipped(carpet, CarpetSettings)
     THEN carpet' = carpet /\ out' = SkippedOut(4)
     ELSE LET r == StickTick(carpet, CarpetSettings, 4)
          IN  carpet' = r.s /\ out' = r.o
  /\ UNCHANGED <<manual, hybrid, automated>>

(***************************************************************************)
(* runDomeAutomation and runAutoMP3 of HybridMode.cpp and of               *)
(* AutomatedMode.cpp (src/HybridMode.cpp, second part).  The values        *)
(* random() returns are the record r the caller draws.                     *)
(***************************************************************************)
modeDelayMillis == 3000

\* 10^5 * baseMsPerDegree * pow(baseSpeed / sequenceSpeed, curveFactor), with
\* baseMsPerDegree = 1700.0 / 90.0, baseSpeed = 30, curveFactor = 1.4
MsPerDegree ==
  [v \in 25..32 |->
     CASE v = 25 -> 2438148 [] v = 26 -> 2307881 [] v = 27 -> 2189106
       [] v = 28 -> 2080438 [] v = 29 -> 1980701 [] v = 30 -> 1888888
       [] v = 31 -> 1804138 [] OTHER -> 1725703]

\* the values the model lets random() return
DomeSpeeds == {25, 32}          \* random(minSpeed, maxSpeed + 1)
DomeDirections == {-1, 1}       \* random(0, 2) == 0 ? -1 : 1
DomeAngles == {10}              \* random(domeMinAngle, domeMaxAngle + 1)
HybridMoveDelays == {10000}     \* random(minMoveIntervalSec * 1000, max...)
AutoMoveDelays == {8000}        \* random(minDelayMs, maxDelayMs + 1)
HybridMP3Delays == {5000}       \* random(5000, 15000)
AutoMP3Delays == {20000}        \* random(mp3MinIntervalSec * 1000, max...)

\* the sound banks: the macros are octal literals (016 = 14, 031 = 25,
\* 035 = 29, 061 = 49, 076 = 62), random(lo, hi + 1) draws from lo .. hi
BankRange(category) ==
  CASE category = 0 -> [lo |-> 1, hi |-> 14]
    [] category = 1 -> [lo |-> 25, hi |-> 29]
    [] OTHER -> [lo |-> 49, hi |-> 62]

RandomTracks == {BankRange(c).lo : c \in 0..2} \cup {BankRange(c).hi : c \in 0..2}

Random(moveDelays, mp3Delays) ==
  [speed : DomeSpeeds, dir : DomeDirections, angle : DomeAngles,
   moveDelay : moveDelays, mp3Delay : mp3Delays, track : RandomTracks]

isMP3Suppressed == ~mp3TriggersEnabled

\* variant of the speed lock that draws a speed for every move
PickSpeed_EveryMove(s, r) == r.speed

\* "if (!sequenceStarted) { sequenceSpeed = random(minSpeed, maxSpeed + 1); ... }"
PickSpeed(s, r) == IF s.sequenceStarted THEN s.sequenceSpeed ELSE r.speed

\* movesBeforeCenter of AutomatedMode.cpp, the literal 2 of HybridMode.cpp
movesBeforeCenter == 2

\* variant of the return decision that looks at the swing count only
IsReturnMove_CountOnly(s) == s.moveCount >= movesBeforeCenter

\* "if (moveCount >= movesBeforeCenter || fabs(domeOffset) > 0.5)", domeOffset
\* being an int
IsReturnMove(s) == s.moveCount >= movesBeforeCenter \/ abs(s.domeOffset) >= 1

\* variant of the direction of a return move that follows the sign of the offset
ReturnDirection_Same(domeOffset) == IF domeOffset >= 0 THEN 1 ELSE -1

\* "direction = (domeOffset >= 0) ? -1 : 1;"
ReturnDirection(domeOffset) == IF domeOffset >= 0 THEN -1 ELSE 1

\* the end of runDomeAutomation: a move is chosen and started
StartDomeMove(s, r) ==
  LET sequenceSpeed == PickSpeed(s, r)
      isReturnMove == IsReturnMove(s)
      direction == IF isReturnMove THEN ReturnDirection(s.domeOffset) ELSE r.dir
      angle == IF isReturnMove THEN abs(s.domeOffset) ELSE r.angle
      adjustedMsPerDegree ==
        IF isReturnMove THEN MsPerDegree[sequenceSpeed]
        ELSE IF direction > 0 THEN (MsPerDegree[sequenceSpeed] * 106) \div 100
        ELSE (MsPerDegree[sequenceSpeed] * 96) \div 100
      duration == (angle * adjustedMsPerDegree) \div 100000
      \* in hundredths of a degree
      actualAngleMoved == (duration * 100000) \div (adjustedMsPerDegree \div 100)
  IN  [s |-> [s EXCEPT !.lastMoveTime = now, !.nextMoveDelay = r.moveDelay,
                       !.sequenceSpeed = sequenceSpeed,
                       !.sequenceStarted = ~isReturnMove,
                       !.moveCount = IF isReturnMove THEN 0 ELSE s.moveCount + 1,
                       !.domeOffset = cdiv(s.domeOffset * 100 + direction * actualAngleMoved, 100),
                       !.domeEndTime = UnsignedLong(now + duration),
                       !.domeDirection = direction,
                       !.currentDomeSpeed = sequenceSpeed,
                       !.domeMoving = TRUE],
       dome |-> <<direction * sequenceSpeed>>]

\* "if (domeMoving) { if (now >= domeEndTime) { domeMotor.motor(1, 0); ... } return; }"
FinishDomeMove(s) ==
  IF ~ULess(now, s.domeEndTime)
  THEN [s |-> [s EXCEPT !.domeMoving = FALSE], dome |-> <<0>>]
  ELSE [s |-> s, dome |-> <<>>]

Settling(s) == ULess(UnsignedLong(now - s.modeEntryTime), modeDelayMillis)

MoveNotDue(s) == ULess(UnsignedLong(now - s.lastMoveTime), s.nextMoveDelay)

\* HybridMode.cpp: the settle window is checked before the move in flight
runDomeAutomationHybrid(s, r) ==
  IF Settling(s) THEN [s |-> s, dome |-> <<>>]
  ELSE IF s.domeMoving THEN FinishDomeMove(s)
  ELSE IF MoveNotDue(s) THEN [s |-> s, dome |-> <<>>]
  ELSE StartDomeMove(s, r)

\* AutomatedMode.cpp: the move in flight is checked first
runDomeAutomationAuto(s, r) ==
  IF s.domeMoving THEN FinishDomeMove(s)
  ELSE IF MoveNotDue(s) \/ Settling(s) THEN [s |-> s, dome |-> <<>>]
  ELSE LET m == StartDomeMove(s, r)
       IN  [s |-> [m.s EXCEPT !.lastMoveDirection =
                     IF m.s.sequenceStarted THEN m.s.domeDirection ELSE @],
            dome |-> m.dome]

MP3Due(s) == ULess(s.nextMP3Delay, UnsignedLong(now - s.lastMP3Time))

\* HybridMode.cpp: [s |-> statics, audio |-> the tracks submitted]
runAutoMP3Hybrid(s, r) ==
  IF ~Settling(s) /\ MP3Due(s) /\ ~isMP3Suppressed
  THEN [s |-> [s EXCEPT !.lastMP3Time = now, !.nextMP3Delay = r.mp3Delay],
        audio |-> <<r.track>>]
  ELSE [s |-> s, audio |-> <<>>]

\* AutomatedMode.cpp: no settle window; a suppressed trigger still re-arms
runAutoMP3Auto(s, r) ==
  IF MP3Due(s)
  THEN [s |-> [s EXCEPT !.lastMP3Time = now, !.nextMP3Delay = r.mp3Delay],
        audio |-> IF isMP3Suppressed THEN <<>> ELSE <<r.track>>]
  ELSE [s |-> s, audio |-> <<>>]

(***************************************************************************)
(* HybridMode.cpp: manual drive, automated dome and cadence audio.         *)
(***************************************************************************)
HybridSettings ==
  [expoCurve |-> 10, speedLimit |-> 25, deadZone |-> 0, taperFallRate |-> 60,
   motorTimeoutMs |-> 150, domeResendMs |-> 50,
   killMode |-> 3]      \* "bool killActive = isComboModeActive(3);"

HybridStatics ==
  [currentDomeSpeed |-> 0, lastSentDomeSpeed |-> 0, previousDomeMillis |-> 0,
   lastDrive |-> 0, lastTurn |-> 0, savedTurnSpeed |-> 0,
   lastDriveCommandTime |-> 0, lastTurnCommandTime |-> 0,
   wasTurnInputActive |-> FALSE, lastKillState |-> FALSE, modeEntryTime |-> 0,
   lastMoveTime |-> 0, nextMoveDelay |-> 0, domeMoving |-> FALSE, domeOffset |-> 0,
   moveCount |-> 0, domeDirection |-> 0, sequenceSpeed |-> 30,
   sequenceStarted |-> FALSE, domeEndTime |-> 0,
   lastMP3Time |-> 0, nextMP3Delay |-> 0]

taperToZero(value, p) ==
  LET taperRate == map(abs(value), 0, p.speedLimit, 5, p.taperFallRate)
  IN  IF value > 0 THEN (IF value - taperRate < 0 THEN 0 ELSE value - taperRate)
      ELSE IF value < 0 THEN (IF value + taperRate > 0 THEN 0 ELSE value + taperRate)
      ELSE value

\* variant of the kill gate that lets the automation run on every tick
AutomationRuns_Always(killActive) == TRUE

\* "if (!killActive) { runDomeAutomation(); runAutoMP3(); }"
AutomationRuns(killActive) == ~killActive

\* one call of loopHybridMode from the statics s with the random values r
HybridTick(s, p, r) ==
  LET mappedTurn0 == map(constrain(ch_value("ch1a"), 1000, 2000), 1000, 2000, -127, 127)
      mappedDrive0 == map(constrain(ch_value("ch2a"), 1000, 2000), 1000, 2000, -127, 127)
      mappedDrive == IF abs(mappedDrive0) <= p.deadZone THEN 0 ELSE mappedDrive0
      mappedTurn1 == IF abs(mappedTurn0) <= p.deadZone THEN 0 ELSE mappedTurn0
      mappedTurn == IF abs(mappedDrive) > 80
                    THEN constrain(mappedTurn1, -40, 40) ELSE mappedTurn1
      curvedDrive == applyExpoCurve(mappedDrive, p.expoCurve, p.speedLimit)
      curvedTurn == applyExpoCurve(mappedTurn, p.expoCurve, p.speedLimit)
      lastDriveCommandTime == now
      lastTurn1 ==
        IF mappedTurn = 0 /\ s.wasTurnInputActive
        THEN taperToZero(IF s.lastTurn # 0 THEN s.lastTurn ELSE s.savedTurnSpeed, p)
        ELSE IF mappedTurn = 0 THEN 0
        ELSE curvedTurn
      lastTurnCommandTime == IF mappedTurn = 0 THEN s.lastTurnCommandTime ELSE now
      killActive == isComboModeActive(p.killMode)
      log == KillLog(killActive, s.lastKillState, TRUE,
                     "[KILL SWITCH ACTIVE] Automation + MP3s disabled.",
                     "[KILL SWITCH RELEASED] Automation + MP3s re-enabled.")
      lastDrive2 == KillOverride(killActive, curvedDrive)
      lastTurn2 == KillOverride(killActive, lastTurn1)
      s1 == [s EXCEPT !.savedTurnSpeed = IF mappedTurn = 0 THEN @ ELSE curvedTurn,
                      !.lastDriveCommandTime = lastDriveCommandTime,
                      !.lastTurnCommandTime = lastTurnCommandTime,
                      !.wasTurnInputActive = mappedTurn # 0,
                      !.lastKillState = killActive]
      \* "if (!killActive) { runDomeAutomation(); runAutoMP3(); } else analogWrite(46, 0);"
      d == IF AutomationRuns(killActive) THEN runDomeAutomationHybrid(s1, r)
           ELSE [s |-> s1, dome |-> <<>>]
      a == IF AutomationRuns(killActive) THEN runAutoMP3Hybrid(d.s, r)
           ELSE [s |-> d.s, audio |-> <<>>]
      killWrite == IF killActive THEN <<0>> ELSE <<>>
      resend == a.s.currentDomeSpeed # a.s.lastSentDomeSpeed
                  \/ now - a.s.previousDomeMillis >= p.domeResendMs
      speedWrite == IF resend THEN <<a.s.currentDomeSpeed>> ELSE <<>>
  IN  [s |-> [a.s EXCEPT
                !.previousDomeMillis = IF resend THEN now ELSE @,
                !.lastSentDomeSpeed = IF resend THEN a.s.currentDomeSpeed ELSE @,
                !.lastDrive = CommandTimeout(now, lastDriveCommandTime, p.motorTimeoutMs, lastDrive2),
                !.lastTurn = CommandTimeout(now, lastTurnCommandTime, p.motorTimeoutMs, lastTurn2)],
       o |-> [mode |-> 3, ran |-> TRUE, kill |-> killActive,
              drive |-> lastDrive2, turn |-> lastTurn2,
              dome |-> d.dome, pin46 |-> killWrite \o speedWrite,
              log |-> log, audio |-> a.audio]]

\* loop(): "if (currentMode != lastMode)" runs the setup function of the mode
\* before its loop function
ModeTransition == currentMode # lastMode

setupHybridMode(s) == [s EXCEPT !.modeEntryTime = now]

\* loopHybridMode with the values of random() drawn from R
HybridLoop(R) ==
  /\ currentMode = 3
  /\ \E r \in R :
       LET s0 == IF ModeTransition THEN setupHybridMode(hybrid) ELSE hybrid
           t == HybridTick(s0, HybridSettings, r)
       IN  hybrid' = t.s /\ out' = t.o
  /\ UNCHANGED <<manual, carpet, automated>>

loopHybridMode == HybridLoop(Random(HybridMoveDelays, HybridMP3Delays))

(***************************************************************************)
(* AutomatedMode.cpp (src/HybridMode.cpp, second part).                    *)
(***************************************************************************)
AutomatedStatics ==
  [lastMoveTime |-> 0, nextMoveDelay |-> 0, lastMP3Time |-> 0, nextMP3Delay |-> 0,
   lastKillState |-> FALSE, modeEntryTime |-> 0, domeMoving |-> FALSE,
   domeOffset |-> 0, moveCount |-> 0, currentDomeSpeed |-> 0, domeDirection |-> 0,
   domeEndTime |-> 0, sequenceSpeed |-> 30, sequenceStarted |-> FALSE,
   lastMoveDirection |-> 0]

\* "bool killActive = isComboModeActive(2);"
AutomatedKillMode == 2

AutomatedTick(s, r) ==
  LET killActive == isComboModeActive(AutomatedKillMode)
      log == KillLog(killActive, s.lastKillState, TRUE,
                     "[KILL SWITCH ACTIVE] Automation + MP3s disabled.",
                     "[KILL SWITCH RELEASED] Automation + MP3s re-enabled.")
      s1 == [s EXCEPT !.lastKillState = killActive]
      d == IF AutomationRuns(killActive) THEN runDomeAutomationAuto(s1, r)
           ELSE [s |-> s1, dome |-> <<>>]
      a == IF AutomationRuns(killActive) THEN runAutoMP3Auto(d.s, r)
           ELSE [s |-> d.s, audio |-> <<>>]
  IN  [s |-> a.s,
       o |-> [mode |-> 2, ran |-> TRUE, kill |-> killActive, drive |-> 0, turn |-> 0,
              dome |-> d.dome, pin46 |-> <<>>, log |-> log, audio |-> a.audio]]

setupAutomatedMode(s) == [s EXCEPT !.modeEntryTime = now]

\* loopAutomatedMode with the values of random() drawn from R
AutomatedLoop(R) ==
  /\ currentMode = 2
  /\ \E r \in R :
       LET s0 == IF ModeTransition THEN setupAutomatedMode(automated) ELSE automated
           t == AutomatedTick(s0, r)
       IN  automated' = t.s /\ out' = t.o
  /\ UNCHANGED <<manual, carpet, hybrid>>

loopAutomatedMode == AutomatedLoop(Random(AutoMoveDelays, AutoMP3Delays))

(***************************************************************************)
(* The environment: a receiver channel changes its pulse width; time       *)
(* passes (pulseIn waits, delays and serial output of the loop).  A live   *)
(* channel (width above 0) carries a pulse in every frame of the receiver, *)
(* which is shorter than the time steps of the model: the interrupt        *)
(* handlers have seen the current width, and a pulse at the current time.  *)
(***************************************************************************)
\* the interrupt handlers have run for the pulses of the live channels of s at t
Pulses(p, s, t) ==
  [value |-> [ch \in IsrChans |->
                IF s[ch] > 0 /\ ch \in attached THEN ToInt16(s[ch]) ELSE p.value[ch]],
   start |-> [ch \in IsrChans |->
                IF s[ch] > 0 /\ ch \in attached THEN t ELSE p.start[ch]]]

EnvInput(ch, v) ==
  /\ sig[ch] # v
  /\ sig' = [sig EXCEPT ![ch] = v]
  /\ pwmIn' = IF ch \in attached /\ v > 0 THEN ch_pulse(pwmIn, ch, v, now) ELSE pwmIn
  /\ UNCHANGED now

Advance(dt, horizon) ==
  /\ now + dt <= SetupMillis + horizon
  /\ now' = now + dt
  /\ pwmIn' = Pulses(pwmIn, sig, now + dt)
  /\ UNCHANGED sig

(***************************************************************************)
(* The state when setup() returns: mode 1, sticks centred, buttons low.    *)
(***************************************************************************)
Centred == [ch \in Chans |-> IF ch \in Sticks THEN 1500 ELSE 1000]

\* setup() has returned while the receivers carry the widths s0
Power(s0) ==
  /\ sig = s0
  /\ now = SetupMillis
  /\ currentCombo = 0
  /\ currentMode = 1
  /\ lastCombo = 0
  /\ lastMode = 1
  /\ comboTimestamp = 0
  /\ last_CH = [ch \in Toggles |-> -1]
  /\ hasTriggered_CH6 = [ch \in Momentaries |-> [x \in Dirs |-> FALSE]]
  /\ mp3TriggersEnabled = TRUE
  /\ marc = ""
  /\ attached = setupPWMInputs(setupPWMInputs({}, 1), 1)
  /\ rd = ReadNone
  /\ pwmIn = Pulses([value |-> [ch \in IsrChans |-> 1500],
                      start |-> [ch \in IsrChans |-> 0]], s0, SetupMillis)
  /\ manual = StickStatics
  /\ carpet = StickStatics
  /\ hybrid = HybridStatics
  /\ automated = AutomatedStatics
  /\ out = OutNone
  /\ lastMP3_CH = [ch \in Toggles |-> -1]
  /\ hasTriggeredMP3_CH6 = [ch \in Momentaries |-> FALSE]
  /\ lastTriggerTime = 0
  /\ mp3out = MP3None
  /\ pc = "combo"

Init == Power(Centred)

(***************************************************************************)
(* SpecCombo: the recognizer alone, called again and again while the       *)
(* sticks of controller B and the buttons move.                            *)
(***************************************************************************)
ComboInputs ==
  [ch \in Chans |->
     CASE ch = "ch2b" -> {1100, 1500}
       [] ch = "ch1b" -> {1100, 1500}
       [] ch \in {"ch3a", "ch4a", "ch6a"} -> {1000, 2000}
       [] OTHER -> {}]

ComboSteps == {1200}

ComboCall ==
  /\ pc = "combo"
  /\ updateComboHandler
  /\ UNCHANGED <<sig, now, pc, modeVars>>

ComboEnv ==
  /\ \E ch \in Chans : \E v \in ComboInputs[ch] : EnvInput(ch, v)
  /\ UNCHANGED <<comboVars, loopVars, pc>>

ComboTime ==
  /\ \E dt \in ComboSteps : Advance(dt, MaxComboMs)
  /\ UNCHANGED <<comboVars, loopVars, pc>>

NextCombo == ComboCall \/ ComboEnv \/ ComboTime

SpecCombo == Init /\ [][NextCombo]_vars

(***************************************************************************)
(* Properties of the recognizer (SpecCombo).                               *)
(***************************************************************************)
\* the combo a call of updateComboHandler detects: a detector fired and the
\* last assignment of the detectors is combo c
Detected(c) == Detectors.fired /\ Detectors.combo = c

\* C8: currentMode is always one of 1, 2, 3, 4.
C8_ModeInRange == currentMode \in 1..4

\* C8: a mode-select has moved the droid out of the initial mode, to mode 4.
C8_Witness == currentMode = 4 /\ lastMode = 4

\* C9 (as stated): after a call of updateComboHandler in which mode-select
\* combo c in 1..4 is detected, currentMode = c and currentCombo = 0,
\* whatever the mode was before.
C9_SelectClearsCombo ==
  [][\A c \in 1..4 :
       updateComboHandler /\ Detected(c) => currentMode' = c /\ currentCombo' = 0]_vars

\* C9 (amended): after such a call currentMode = c; currentCombo = 0 if c
\* differs from the mode before the call, and currentCombo = c if c is the
\* mode before the call.
C9_SelectSetsMode ==
  [][\A c \in 1..4 :
       updateComboHandler /\ Detected(c) =>
         /\ currentMode' = c
         /\ currentCombo' = IF c = currentMode THEN c ELSE 0]_vars

\* C9: the mode-select of the current mode has been detected: currentCombo
\* keeps the id of the mode.
C9_Witness == currentCombo \in 1..4 /\ currentCombo = currentMode /\ currentMode # 1

\* C10: at the end of every call of updateComboHandler, an action combo in
\* currentCombo (id above 4) is permitted by the whitelist of currentMode.
C10_ComboPermitted == currentCombo > 4 => ComboPermitted(currentMode, currentCombo)

\* C11: an action combo still active at the end of a call of
\* updateComboHandler was accepted at most comboResetDelay ms before it, so the
\* first call later than that ends idle; the watchdog is started only by the
\* acceptance of a combo that differs from the last accepted one, a
\* re-detection of the same id does not restart it.
C11_WatchdogExpires ==
  [][updateComboHandler =>
       /\ currentCombo' > 4 => now - comboTimestamp' <= comboResetDelay
       /\ comboTimestamp' # comboTimestamp =>
            comboTimestamp' = now /\ lastCombo' = currentCombo' /\ lastCombo' # lastCombo]_vars

\* C11: combo 9, accepted in Automated mode, has expired
C11_Witness ==
  /\ currentMode = 2 /\ currentCombo = 0 /\ lastCombo = 9
  /\ comboTimestamp >= SetupMillis /\ now - comboTimestamp > comboResetDelay

\* C12: a call of updateComboHandler that starts idle (currentCombo = 0) and
\* detects an action combo c the current mode permits ends with c active, has
\* sent the MarcDuino command of c, applied its suppression change and started
\* the watchdog, whatever the last accepted combo was.
C12_IdleAccepts ==
  [][\A c \in 5..32 :
       updateComboHandler /\ currentCombo = 0 /\ Detected(c)
         /\ ComboPermitted(currentMode, c) =>
           /\ currentCombo' = c
           /\ comboTimestamp' = now
           /\ marc' = MarcCommand(c)
           /\ mp3TriggersEnabled' = ComboSuppression(c, mp3TriggersEnabled)]_vars

(***************************************************************************)
(* loop(): updateComboHandler, then the loop function of the current mode. *)
(***************************************************************************)
LoopCombo ==
  /\ pc = "combo"
  /\ updateComboHandler
  /\ pc' = "mode"
  /\ UNCHANGED <<sig, now, modeVars>>

\* the setup function of the current mode: setupManualMode, setupCarpetMode
\* and setupHybridMode call setupPWMInputs, setupAutomatedMode does not
ModeSetupInputs(att) ==
  IF currentMode \in {1, 3, 4} THEN setupPWMInputs(att, currentMode) ELSE att

\* the rest of a loop() call whose mode loop started at pc = at and returns
\* ms milliseconds after it was called
LoopEndAfter(at, ms) ==
  /\ pc = at
  /\ pc' = "combo"
  /\ lastMode' = currentMode
  /\ attached' = IF ModeTransition THEN ModeSetupInputs(attached) ELSE attached
  /\ rd' = ReadNone
  /\ now' = now + ms
  /\ pwmIn' = IF ms = 0 THEN pwmIn ELSE Pulses(pwmIn, sig, now + ms)
  /\ UNCHANGED <<sig, currentCombo, currentMode, lastCombo, comboTimestamp,
                 last_CH, hasTriggered_CH6, mp3TriggersEnabled, marc, mp3Vars>>

\* the same with the time the mode loop takes left to the environment
LoopEnd(at) == LoopEndAfter(at, 0)

LoopRest == LoopEnd("mode")

LoopManual == loopManualMode /\ LoopRest
LoopAutomated == loopAutomatedMode /\ LoopRest
LoopHybrid == loopHybridMode /\ LoopRest
LoopCarpet == loopCarpetMode /\ LoopRest

(***************************************************************************)
(* SpecKill: the droid is powered up with the mode-select of a mode held   *)
(* (or none), then the sticks move while loop() runs.                      *)
(***************************************************************************)
\* receiver B's buttons are not connected; receiver A's buttons rest, CH5
\* unconnected (mode 2) or CH6 pressed (mode 4)
Select(m) ==
  [ch \in Chans |->
     CASE ch \in {"ch1a", "ch2a", "ch1b"} -> 1500
       [] ch = "ch2b" -> IF m = 1 THEN 1500 ELSE 1100
       [] ch \in {"ch3a", "ch4a"} -> 1000
       [] ch = "ch5a" -> IF m = 2 THEN 0 ELSE 1000
       [] ch = "ch6a" -> IF m = 4 THEN 2000 ELSE 1000
       [] OTHER -> 0]

InitKill == \E m \in 1..4 : Power(Select(m))

KillInputs ==
  [ch \in Chans |->
     CASE ch = "ch2b" -> {1100, 1500, 1900}
       [] ch = "ch1b" -> {1100, 1500}
       [] ch \in {"ch1a", "ch2a"} -> {1500, 2000}
       [] OTHER -> {}]

KillSteps == {100}
MaxKillMs == 100

KillEnv ==
  /\ pc = "mode"
  /\ \E ch \in Chans : \E v \in KillInputs[ch] : EnvInput(ch, v)
  /\ UNCHANGED <<comboVars, loopVars, pc>>

KillTime ==
  /\ pc = "mode"
  /\ \E dt \in KillSteps : Advance(dt, MaxKillMs)
  /\ UNCHANGED <<comboVars, loopVars, pc>>

NextKill ==
  \/ LoopCombo \/ LoopManual \/ LoopAutomated \/ LoopHybrid \/ LoopCarpet
  \/ KillEnv \/ KillTime

SpecKill == InitKill /\ [][NextKill]_vars

(***************************************************************************)
(* Properties of the safety arbiter (SpecKill).  out is what the last call *)
(* of a mode loop did; while pc = "combo" the receivers still carry the    *)
(* widths that call read.                                                  *)
(***************************************************************************)
\* C1: in Manual, Carpet and Hybrid mode, a tick whose kill condition
\* evaluates true forwards drive 0 and turn 0 to the Sabertooth.
C1_KillZeroesDrive ==
  out.ran /\ out.kill /\ out.mode \in {1, 3, 4} => out.drive = 0 /\ out.turn = 0

\* C1: a Hybrid tick with kill active while both sticks of controller A are
\* fully deflected.
C1_Witness ==
  /\ pc = "combo" /\ out.ran /\ out.kill /\ out.mode = 3
  /\ pwmIn.value["ch2a"] = 2000 /\ pwmIn.value["ch1a"] = 2000

\* C6: the kill condition a mode loop evaluates is the one of its own mode:
\* isComboModeActive(1) in Manual, (2) in Automated, (3) in Hybrid and (4) in
\* Carpet mode.
C6_KillOfOwnMode ==
  pc = "combo" /\ out.ran => out.kill = isComboModeActive(out.mode)

InitLoss == \E m \in {1, 3, 4} : Power(Select(m))

LossInputs ==
  [ch \in Chans |->
     CASE ch \in {"ch1a", "ch2a"} -> {0, 2000}
       [] ch = "ch2b" -> {1500}
       [] OTHER -> {}]

LossSteps == {200}
MaxLossMs == 200

LossEnv ==
  /\ pc = "mode"
  /\ \E ch \in Chans : \E v \in LossInputs[ch] : EnvInput(ch, v)
  /\ UNCHANGED <<comboVars, loopVars, pc>>

LossTime ==
  /\ pc = "mode"
  /\ \E dt \in LossSteps : Advance(dt, MaxLossMs)
  /\ UNCHANGED <<comboVars, loopVars, pc>>

NextLoss ==
  \/ LoopCombo \/ LoopManual \/ LoopHybrid \/ LoopCarpet
  \/ LossEnv \/ LossTime

SpecLoss == InitLoss /\ [][NextLoss]_vars

\* motorTimeoutMs of the mode files
MotorTimeout(m) ==
  CASE m = 1 -> ManualSettings.motorTimeoutMs
    [] m = 3 -> HybridSettings.motorTimeoutMs
    [] OTHER -> CarpetSettings.motorTimeoutMs

\* no pulse has started on channel ch for longer than the motor timeout of mode m
SignalLost(ch, m) == now - pwmIn.start[ch] > MotorTimeout(m)

\* C5: a tick of the Manual, Hybrid or Carpet loop that finds the drive
\* channel without a new pulse for longer than motorTimeoutMs forwards drive 0,
\* and one that finds the turn channel so forwards turn 0.
C5_SignalLossStops ==
  [][pc = "mode" /\ pc' = "combo" /\ out'.ran /\ out'.mode \in {1, 3, 4} =>
       /\ SignalLost("ch2a", out'.mode) => out'.drive = 0
       /\ SignalLost("ch1a", out'.mode) => out'.turn = 0]_vars

(***************************************************************************)
(* SpecDome: the droid is powered up in one of the four modes and loop()   *)
(* runs through the settle window and the first automated dome move while  *)
(* the sticks of controller B move (down: kill in every mode; right: the   *)
(* dome stick of Manual and Carpet, kill in Automated and Hybrid).         *)
(***************************************************************************)
DomeInputs ==
  [ch \in Chans |->
     CASE ch = "ch2b" -> {1100, 1500}
       [] ch = "ch1b" -> {1500, 2000}
       [] OTHER -> {}]

DomeSteps == {200}
MaxDomeMs == 800

DomeEnv ==
  /\ pc = "mode"
  /\ \E ch \in Chans : \E v \in DomeInputs[ch] : EnvInput(ch, v)
  /\ UNCHANGED <<comboVars, loopVars, pc>>

DomeTime ==
  /\ pc = "mode"
  /\ \E dt \in DomeSteps : Advance(dt, MaxDomeMs)
  /\ UNCHANGED <<comboVars, loopVars, pc>>

NextDome ==
  \/ LoopCombo \/ LoopManual \/ LoopAutomated \/ LoopHybrid \/ LoopCarpet
  \/ DomeEnv \/ DomeTime

SpecDome == InitKill /\ [][NextDome]_vars

(***************************************************************************)
(* Properties of the kill switch and the automated dome (SpecDome).        *)
(***************************************************************************)
\* the statics of the automation of mode m (2: AutomatedMode.cpp, else
\* HybridMode.cpp)
Automation(m) == IF m = 2 THEN automated ELSE hybrid

\* the same after the step
AutomationAfter(m) == IF m = 2 THEN automated' ELSE hybrid'

\* the last value a tick wrote, 0 - 1 for none
LastWrite(writes) == IF writes = <<>> THEN 0 - 1 ELSE writes[Len(writes)]

\* C2: at the end of every tick whose kill condition is active the dome
\* command in effect is neutral: currentDomeSpeed is 0 (and nothing else was
\* sent to the dome motor) in Manual and Carpet mode, the last value written
\* to pin 46 in that tick is 0 in Hybrid mode.
C2_KillDomeNeutral ==
  out.ran /\ out.kill =>
    /\ out.mode = 1 => manual.currentDomeSpeed = 0 /\ out.dome \in {<<>>, <<0>>}
    /\ out.mode = 4 => carpet.currentDomeSpeed = 0 /\ out.dome \in {<<>>, <<0>>}
    /\ out.mode = 3 => LastWrite(out.pin46) = 0

\* C3: a tick of the Automated or Hybrid loop that finds a dome move in
\* flight whose end time has come (now >= domeEndTime) sends the stop command
\* (dome motor speed 0), whether or not kill is active at that tick.
C3_MoveCompletes ==
  [][pc = "mode" /\ pc' = "combo" /\ out'.ran /\ out'.mode \in {2, 3}
       /\ Automation(out'.mode).domeMoving
       /\ now >= Automation(out'.mode).domeEndTime
     => out'.dome = <<0>> /\ ~AutomationAfter(out'.mode).domeMoving]_vars

\* the schedule of the automation: the move in flight, the next move and
\* the next cadence track
Schedule(s) ==
  <<s.lastMoveTime, s.nextMoveDelay, s.domeMoving, s.domeOffset, s.moveCount,
    s.domeDirection, s.sequenceSpeed, s.sequenceStarted, s.domeEndTime,
    s.currentDomeSpeed, s.lastMP3Time, s.nextMP3Delay>>

C16_SettleWindowInert ==
  out.ran /\ out.mode \in {2, 3} /\ now - SetupMillis < modeDelayMillis =>
    out.audio = <<>> /\ out.dome \in {<<>>, <<0>>}

(***************************************************************************)
(* SpecSwitch: the droid is powered up in Automated or Hybrid mode and the *)
(* operator switches to Manual mode while loop() runs: controller-B stick  *)
(* down with toggle CH3 of controller A flipped.  The stick held down is   *)
(* also the kill condition of every mode.                                  *)
(***************************************************************************)
InitSwitch == \E m \in {2, 3} : Power(Select(m))

SwitchInputs ==
  [ch \in Chans |->
     CASE ch = "ch2b" -> {1100, 1500}
       [] ch = "ch3a" -> {1000, 2000}
       [] OTHER -> {}]

SwitchSteps == {200}
MaxSwitchMs == 800

SwitchEnv ==
  /\ pc = "mode"
  /\ \E ch \in Chans : \E v \in SwitchInputs[ch] : EnvInput(ch, v)
  /\ UNCHANGED <<comboVars, loopVars, pc>>

SwitchTime ==
  /\ pc = "mode"
  /\ \E dt \in SwitchSteps : Advance(dt, MaxSwitchMs)
  /\ UNCHANGED <<comboVars, loopVars, pc>>

NextSwitch ==
  \/ LoopCombo \/ LoopManual \/ LoopAutomated \/ LoopHybrid
  \/ SwitchEnv \/ SwitchTime

SpecSwitch == InitSwitch /\ [][NextSwitch]_vars

(***************************************************************************)
(* Properties of a mode switch (SpecSwitch).                               *)
(***************************************************************************)
\* C13: when a call of updateComboHandler changes currentMode, loop() finds
\* currentMode != lastMode right after it and runs the mode-transition
\* handling (setup function of the new mode, confirmation sound, LED blink
\* total) before it calls the loop function of the new mode.
C13_SwitchRunsTransition ==
  [][pc = "combo" /\ pc' = "mode" /\ currentMode' # currentMode => ModeTransition']_vars

\* C14: the first tick of the Hybrid or Automated loop after a switch to that
\* mode runs on reinitialized automation state: at its end the mode-entry
\* time is the time of the switch, no dome move is in flight, the accumulated
\* offset and the swing count are 0 and no sequence speed is locked.
C14_SwitchReinitializes ==
  [][pc = "mode" /\ pc' = "combo" /\ out'.ran /\ out'.mode \in {2, 3}
       /\ out.mode # out'.mode =>
         /\ AutomationAfter(out'.mode).modeEntryTime = now
         /\ ~AutomationAfter(out'.mode).domeMoving
         /\ AutomationAfter(out'.mode).domeOffset = 0
         /\ AutomationAfter(out'.mode).moveCount = 0
         /\ ~AutomationAfter(out'.mode).sequenceStarted]_vars

\* C15: a tick of the Manual loop that finds a dome move of the Hybrid or
\* Automated scheduler in flight whose end time has come sends the stop
\* command (dome motor speed 0).
C15_MoveStoppedAfterSwitch ==
  [][pc = "mode" /\ pc' = "combo" /\ out'.ran /\ out'.mode = 1
       /\ (\E m \in {2, 3} : Automation(m).domeMoving /\ now >= Automation(m).domeEndTime)
     => out'.dome = <<0>>]_vars

(***************************************************************************)
(* SpecSeq: the droid is powered up in Automated or Hybrid mode and left   *)
(* alone for several dome sequences; random() returns the smallest and the *)
(* largest angle of each mode.                                             *)
(***************************************************************************)
domeMaxAngleDeg == 90     \* HybridMode.cpp
domeMaxAngle == 45        \* AutomatedMode.cpp

SeqHybridAngles == {10, domeMaxAngleDeg}
SeqAutoAngles == {10, domeMaxAngle}

SeqTracks == {BankRange(0).lo}

SeqRandom(angles, moveDelays, mp3Delays) ==
  [speed : DomeSpeeds, dir : DomeDirections, angle : angles,
   moveDelay : moveDelays, mp3Delay : mp3Delays, track : SeqTracks]

LoopAutomatedSeq ==
  AutomatedLoop(SeqRandom(SeqAutoAngles, AutoMoveDelays, AutoMP3Delays)) /\ LoopRest

LoopHybridSeq ==
  HybridLoop(SeqRandom(SeqHybridAngles, HybridMoveDelays, HybridMP3Delays)) /\ LoopRest

\* the stick of controller B, held down at power-up to select the mode, is
\* released
SeqInputs == [ch \in Chans |-> IF ch = "ch2b" THEN {1500} ELSE {}]

SeqSteps == {2500}
MaxSeqMs == 32500

SeqEnv ==
  /\ pc = "mode"
  /\ \E ch \in Chans : \E v \in SeqInputs[ch] : EnvInput(ch, v)
  /\ UNCHANGED <<comboVars, loopVars, pc>>

SeqTime ==
  /\ pc = "mode"
  /\ \E dt \in SeqSteps : Advance(dt, MaxSeqMs)
  /\ UNCHANGED <<comboVars, loopVars, pc>>

NextSeq == LoopCombo \/ LoopAutomatedSeq \/ LoopHybridSeq \/ SeqEnv \/ SeqTime

SpecSeq == InitSwitch /\ [][NextSeq]_vars

(***************************************************************************)
(* Properties of the dome sequences (SpecSeq).                             *)
(***************************************************************************)
\* a tick of the loop of mode m in which runDomeAutomation starts a move
StartsMove(m) ==
  /\ pc = "mode" /\ pc' = "combo" /\ out'.ran /\ out'.mode = m
  /\ ~Automation(m).domeMoving /\ AutomationAfter(m).domeMoving

\* C17: when runDomeAutomation starts a correction move, the move runs against
\* the sign of the accumulated offset, its duration is that of the angle
\* |domeOffset| at the speed of the sequence, and the accumulated offset is 0
\* after the move's offset update.
C17_CorrectionCentres ==
  [][\A m \in {2, 3} :
       StartsMove(m) /\ IsReturnMove(Automation(m)) =>
         /\ Automation(m).domeOffset > 0 => AutomationAfter(m).domeDirection = -1
         /\ Automation(m).domeOffset < 0 => AutomationAfter(m).domeDirection = 1
         /\ AutomationAfter(m).domeEndTime - now =
              (abs(Automation(m).domeOffset)
                 * MsPerDegree[AutomationAfter(m).sequenceSpeed]) \div 100000
         /\ AutomationAfter(m).domeOffset = 0]_vars

\* a correction move is in flight and the offset is back at 0
C17_Witness ==
  \E m \in {2, 3} :
    /\ out.ran /\ out.mode = m /\ Len(out.dome) = 1 /\ out.dome[1] # 0
    /\ Automation(m).domeMoving /\ ~Automation(m).sequenceStarted
    /\ Automation(m).lastMoveTime = now /\ Automation(m).domeOffset = 0

\* C18: in every reachable state the accumulated offset of the Hybrid
\* scheduler is at most domeMaxAngleDeg in magnitude and that of the Automated
\* scheduler at most domeMaxAngle.
C18_OffsetBounded ==
  /\ abs(hybrid.domeOffset) <= domeMaxAngleDeg
  /\ abs(automated.domeOffset) <= domeMaxAngle

\* a free move of the largest angle has been made in each direction
C18_Witness ==
  /\ hybrid.domeOffset >= domeMaxAngleDeg - 1
  /\ hybrid.domeMoving /\ hybrid.moveCount = 1

\* C19: a correction move is started only when the swing count has reached
\* movesBeforeCenter: the scheduler makes two free moves from a centred dome
\* before it returns to centre.
C19_TwoFreeMoves ==
  [][\A m \in {2, 3} :
       StartsMove(m) /\ ~AutomationAfter(m).sequenceStarted =>
         Automation(m).moveCount = movesBeforeCenter]_vars

InitHand == Power(Select(2))

HandInputs ==
  [ch \in Chans |->
     CASE ch = "ch2b" -> {1100, 1500}
       [] ch = "ch5a" -> {1000}
       [] OTHER -> {}]

HandSteps == {200}
MaxHandMs == 600

HandEnv ==
  /\ pc = "mode"
  /\ \E ch \in Chans : \E v \in HandInputs[ch] : EnvInput(ch, v)
  /\ UNCHANGED <<comboVars, loopVars, pc>>

HandTime ==
  /\ pc = "mode"
  /\ \E dt \in HandSteps : Advance(dt, MaxHandMs)
  /\ UNCHANGED <<comboVars, loopVars, pc>>

NextHand == LoopCombo \/ LoopAutomated \/ LoopHybrid \/ HandEnv \/ HandTime

SpecHand == InitHand /\ [][NextHand]_vars

(***************************************************************************)
(* Properties of the dome move in flight (SpecHand).                       *)
(***************************************************************************)
\* C21: a tick in which runDomeAutomation starts a move finds no move in
\* flight, neither of the Automated nor of the Hybrid scheduler; and while
\* the move of the running scheduler is in flight and its end time has not
\* come, the scheduler sends no command to the dome motor.
C21_MoveCommitted ==
  [][\A m \in {2, 3} :
       pc = "mode" /\ pc' = "combo" /\ out'.ran /\ out'.mode = m =>
         /\ (out'.dome # <<>> /\ out'.dome # <<0>>) =>
              ~automated.domeMoving /\ ~hybrid.domeMoving
         /\ Automation(m).domeMoving /\ now < Automation(m).domeEndTime =>
              out'.dome = <<>>]_vars

(***************************************************************************)
(* SpecAudio: loop() with its three calls, updateComboHandler,             *)
(* updateMP3Handler and the loop function of the mode, in Manual,          *)
(* Automated and Hybrid mode.  The operator releases stick B, held down   *)
(* at power-up to select the mode, pushes it up and flips the toggles CH3  *)
(* (combo 5 suppresses the audio) and CH4 (combo 6 enables it again) of    *)
(* controller A.                                                           *)
(***************************************************************************)
InitAudio == \E m \in 1..3 : Power(Select(m))

AudioInputs ==
  [ch \in Chans |->
     CASE ch = "ch2b" -> {1500, 1900}
       [] ch = "ch3a" -> {1000, 2000}
       [] ch = "ch4a" -> {2000}
       [] OTHER -> {}]

AudioSteps == {400}
MaxAudioMs == 400

\* the values random() returns: one dome move, the first and the last track
AudioRandom(moveDelays, mp3Delays) ==
  [speed : {25}, dir : {1}, angle : DomeAngles,
   moveDelay : moveDelays, mp3Delay : mp3Delays,
   track : {BankRange(0).lo, BankRange(2).hi}]

LoopAutomatedAudio ==
  AutomatedLoop(AudioRandom(AutoMoveDelays, AutoMP3Delays)) /\ LoopRest

LoopHybridAudio ==
  HybridLoop(AudioRandom(HybridMoveDelays, HybridMP3Delays)) /\ LoopRest

LoopComboMP3 ==
  /\ pc = "combo"
  /\ updateComboHandler
  /\ pc' = "mp3"
  /\ UNCHANGED <<sig, now, modeVars>>

LoopMP3 ==
  /\ pc = "mp3"
  /\ updateMP3Handler
  /\ pc' = "mode"
  /\ UNCHANGED <<sig, now, comboVars, pwmIn, manual, carpet, hybrid, automated, out,
                 isrVars>>

AudioEnv ==
  /\ pc = "mode"
  /\ \E ch \in Chans : \E v \in AudioInputs[ch] : EnvInput(ch, v)
  /\ UNCHANGED <<comboVars, loopVars, pc>>

AudioTime ==
  /\ pc = "mode"
  /\ \E dt \in AudioSteps : Advance(dt, MaxAudioMs)
  /\ UNCHANGED <<comboVars, loopVars, pc>>

NextAudio ==
  \/ LoopComboMP3 \/ LoopMP3 \/ LoopManual \/ LoopAutomatedAudio \/ LoopHybridAudio
  \/ AudioEnv \/ AudioTime

SpecAudio == InitAudio /\ [][NextAudio]_vars

(***************************************************************************)
(* Properties of the audio paths (SpecAudio).                              *)
(***************************************************************************)
\* C22: a tick of the Automated or Hybrid loop that runs the automation while
\* the suppression flag is set and the cadence is due (settle window over)
\* submits no track and schedules the next interval from now: the
\* last-trigger time is now and the next delay is a delay of the mode.
C22_SuppressedReschedules ==
  [][\A m \in {2, 3} :
       pc = "mode" /\ pc' = "combo" /\ out'.ran /\ out'.mode = m /\ ~out'.kill
         /\ ~mp3TriggersEnabled
         /\ MP3Due(Automation(m)) /\ ~Settling(Automation(m)) =>
           /\ out'.audio = <<>>
           /\ AutomationAfter(m).lastMP3Time = now
           /\ AutomationAfter(m).nextMP3Delay
                \in (IF m = 2 THEN AutoMP3Delays ELSE HybridMP3Delays)]_vars

\* C24: while mp3TriggersEnabled is false a call of updateMP3Handler submits
\* no track and a tick of a mode loop submits no cadence track.
C24_SuppressedSilent ==
  [][~mp3TriggersEnabled =>
       /\ pc = "mp3" /\ pc' = "mode" => mp3out'.tracks = <<>>
       /\ pc = "mode" /\ pc' = "combo" => out'.audio = <<>>]_vars

\* a whole tick has run in Automated mode with the flag set and no kill: the
\* button gate was closed by the flag alone and the cadence, due, played
\* nothing
C24_Witness ==
  /\ pc = "combo" /\ ~mp3TriggersEnabled
  /\ mp3out.ran /\ mp3out.blocked /\ ~mp3out.comboActive
  /\ out.ran /\ out.mode = 2 /\ ~out.kill
  /\ automated.lastMP3Time = now /\ out.audio = <<>>

\* the call of updateMP3Handler that ends plays a track of the bank of ch
TogglePlays(ch) ==
  \E i \in 1..Len(mp3out'.tracks) :
    mp3out'.tracks[i] \in MP3Bank(ch).lo..MP3Bank(ch).hi

C28_OneSnapshot ==
  [][pc = "mode" /\ pc' = "combo" /\ out'.ran /\ mp3out.ran =>
       out'.kill = mp3out.comboActive]_vars

(***************************************************************************)
(* Properties of the cadence tracks (SpecDome).                            *)
(***************************************************************************)
\* the file ranges of the README (MP3 Categories): Happy, Sad, Talking
DocumentedBank(category) ==
  CASE category = 0 -> [lo |-> 1, hi |-> 16]
    [] category = 1 -> [lo |-> 31, hi |-> 35]
    [] OTHER -> [lo |-> 61, hi |-> 76]

\* C23: every track the cadence submits in a tick of the Automated or Hybrid
\* loop lies in the range runAutoMP3 draws from for some category and in the
\* documented range of that category (Happy 1-16, Sad 31-35, Talking 61-76).
C23_TracksInBank ==
  \A i \in 1..Len(out.audio) :
    \E c \in 0..2 :
      /\ out.audio[i] \in BankRange(c).lo..BankRange(c).hi
      /\ out.audio[i] \in DocumentedBank(c).lo..DocumentedBank(c).hi

(***************************************************************************)
(* SpecPulse: Manual mode; the receiver of controller A delivers pulses of *)
(* regular and of irregular width (a glitch of 500 us, a pulse of 2500 us, *)
(* a line stuck high for 40 ms) on the interrupt pins.                     *)
(***************************************************************************)
PulseInputs ==
  [ch \in Chans |->
     CASE ch = "ch1a" -> {500, 1500, 2500}
       [] ch = "ch2a" -> {1000, 1500, 40000}
       [] ch = "ch1b" -> {1500, 2000}
       [] OTHER -> {}]

PulseSteps == {100}
MaxPulseMs == 200

PulseEnv ==
  /\ pc = "mode"
  /\ \E ch \in Chans : \E v \in PulseInputs[ch] : EnvInput(ch, v)
  /\ UNCHANGED <<comboVars, loopVars, pc>>

PulseTime ==
  /\ pc = "mode"
  /\ \E dt \in PulseSteps : Advance(dt, MaxPulseMs)
  /\ UNCHANGED <<comboVars, loopVars, pc>>

NextPulse == LoopCombo \/ LoopManual \/ PulseEnv \/ PulseTime

SpecPulse == Init /\ [][NextPulse]_vars

(***************************************************************************)
(* Properties of the pulse decoder (SpecPulse).                            *)
(***************************************************************************)
\* C26: every published channel value (ch1_value, ch2_value, ch1b_value) is
\* the initial 1500 or a width between 900 and 2200 microseconds.
C26_PublishedValid ==
  \A ch \in IsrChans :
    pwmIn.value[ch] = 1500 \/ pwmIn.value[ch] \in VALID_PWM_MIN..VALID_PWM_MAX

(***************************************************************************)
(* SpecTorn: Manual mode; the loop function's read of the channel values   *)
(* is a step of its own, and the interrupt handlers may publish a new      *)
(* width between the two byte loads of a value.  The stick of CH1 rests at *)
(* the widths 1279 (0x04FF) and 1280 (0x0500).                             *)
(***************************************************************************)
TornInputs ==
  [ch \in Chans |->
     CASE ch = "ch1a" -> {1279, 1280}
       [] ch = "ch2a" -> {1500, 2000}
       [] OTHER -> {}]

TornSteps == {100}
MaxTornMs == 200

\* the loop function loads the first byte of each channel value
TornBegin ==
  /\ pc = "mode"
  /\ \E first \in {"lo", "hi"} : rd' = [first |-> first, old |-> pwmIn.value]
  /\ pc' = "read"
  /\ UNCHANGED <<envVars, comboVars, pwmIn, manual, carpet, hybrid, automated, out,
                 mp3Vars, attached>>

\* a pulse ends while the read is in progress: ch*_fall runs
TornIsr ==
  /\ pc = "read"
  /\ \E ch \in IsrChans : \E v \in TornInputs[ch] : EnvInput(ch, v)
  /\ UNCHANGED <<comboVars, loopVars, pc>>

\* the loop function loads the second bytes and goes on
LoopManualTorn == loopManualMode /\ LoopEnd("read")

TornEnv ==
  /\ pc = "mode"
  /\ \E ch \in Chans : \E v \in TornInputs[ch] : EnvInput(ch, v)
  /\ UNCHANGED <<comboVars, loopVars, pc>>

TornTime ==
  /\ pc = "mode"
  /\ \E dt \in TornSteps : Advance(dt, MaxTornMs)
  /\ UNCHANGED <<comboVars, loopVars, pc>>

NextTorn == LoopCombo \/ TornBegin \/ TornIsr \/ LoopManualTorn \/ TornEnv \/ TornTime

SpecTorn == Init /\ [][NextTorn]_vars

(***************************************************************************)
(* Properties of the channel accessors (SpecTorn).                         *)
(***************************************************************************)
\* C27: the value the main loop obtains for a channel is a width an interrupt
\* handler published in full (or the initial 1500), never a mix of the bytes
\* of two widths.
C27_NoTornRead ==
  [][pc = "read" /\ pc' = "combo" /\ out'.ran =>
       \A ch \in IsrChans : ch_value(ch) \in {1500} \cup TornInputs[ch]]_vars

(***************************************************************************)
(* Properties of the interrupt attachment (SpecDome).                      *)
(***************************************************************************)
\* C29: once the loop function of a mode has been called, the CH1B interrupt
\* is attached exactly when that mode is Manual (1) or Carpet (4); it is not
\* attached in Automated (2) or Hybrid (3).
C29_Ch1bAttachment ==
  out.mode \in 1..4 => ("ch1b" \in attached <=> out.mode \in {1, 4})

(***************************************************************************)
(* Properties of the toggle detector (SpecCombo).                          *)
(***************************************************************************)
\* the detectToggleCombo call of toggle ch assigns currentCombo
ToggleDetects(ch) ==
  detectToggleCombo([combo |-> 0, fired |-> FALSE], pulseIn(ch), last_CH[ch], 1,
                    HeldDirs).fired

\* C30: in a call of updateComboHandler the detector of a toggle button fires
\* exactly when a direction is held and the level of the button differs from
\* the level of its previous valid reading; a first reading (no previous valid
\* reading) does not fire.
C30_ToggleTransitionOnly ==
  [][updateComboHandler =>
       \A ch \in Toggles :
         ToggleDetects(ch) <=>
           /\ \E x \in Dirs : HeldDirs[x]
           /\ pulseIn(ch) > 0
           /\ last_CH[ch] # -1
           /\ ToggleState(pulseIn(ch)) # last_CH[ch]]_vars

(***************************************************************************)
(* Properties of the momentary detector (SpecCombo).                       *)
(***************************************************************************)
\* the detectMomentaryCombo call of button ch assigns currentCombo
MomentaryDetects(ch) ==
  detectMomentaryCombo([combo |-> 0, fired |-> FALSE], pulseIn(ch),
                       hasTriggered_CH6[ch], 4, HeldDirs).fired

\* C31: a momentary button fires once per threshold crossing: in a call of
\* updateComboHandler its detector does not fire when it has fired before and
\* no reading since has dropped below the low threshold (a flag of the button
\* is still set), whatever the sticks do during the hold.
C31_OncePerCrossing ==
  [][updateComboHandler =>
       \A ch \in Momentaries :
         (\E x \in Dirs : hasTriggered_CH6[ch][x]) => ~MomentaryDetects(ch)]_vars

(***************************************************************************)
(* SpecIds: the recognizer alone; from rest (sticks centred, buttons low)  *)
(* the operator makes a gesture, a stick of controller B moved in one       *)
(* direction and one button of either controller moved, and releases.      *)
(* updateComboHandler is called after every movement, and the calls follow *)
(* each other within the watchdog time.                                    *)
(***************************************************************************)
Gesture(stick, w, button) == [Centred EXCEPT ![stick] = w, ![button] = 2000]

IdsGestures ==
  {Gesture(stick, w, button) :
     stick \in {"ch1b", "ch2b"}, w \in {1100, 1900},
     button \in Toggles \cup Momentaries}

IdsEnv ==
  /\ pc = "mode"
  /\ pc' = "combo"
  /\ \E s \in IdsGestures \cup {Centred} :
       /\ sig # s
       /\ sig = Centred \/ s = Centred
       /\ sig' = s
       /\ pwmIn' = Pulses(pwmIn, s, now)
  /\ UNCHANGED <<now, comboVars, loopVars>>

NextIds == LoopCombo \/ IdsEnv

SpecIds == Init /\ [][NextIds]_vars

(***************************************************************************)
(* Properties of the combo ids (SpecIds).                                  *)
(***************************************************************************)
\* "directionOffset": 0 for down, 4 for up, 8 for left, 12 for right
DirectionOffset(x) ==
  CASE x = "down" -> 0 [] x = "up" -> 4 [] x = "left" -> 8 [] x = "right" -> 12

\* direction x is held and no other
OnlyHeld(x) == HeldDirs[x] /\ \A y \in Dirs \ {x} : ~HeldDirs[y]

\* what the detector call of button ch assigns: [combo, fired]
ButtonId(ch) ==
  IF ch \in Toggles
  THEN detectToggleCombo([combo |-> 0, fired |-> FALSE], pulseIn(ch), last_CH[ch],
                         baseCombo(ch), HeldDirs)
  ELSE detectMomentaryCombo([combo |-> 0, fired |-> FALSE], pulseIn(ch),
                            hasTriggered_CH6[ch], baseCombo(ch), HeldDirs)

InvalidOrCentred(ch) ==
  \/ pulseIn(ch) = 0 \/ pulseIn(ch) < VALID_PWM_MIN \/ pulseIn(ch) > VALID_PWM_MAX
  \/ (pulseIn(ch) > COMBO_DOWN_MAX /\ pulseIn(ch) < COMBO_UP_MIN)

\* C33: an invalid joystick reading is ignored: when every stick reads invalid
\* or centred, updateComboHandler classifies no direction as held and
\* isComboModeActive is false for every mode.
C33_InvalidIgnored ==
  (\A ch \in Sticks : InvalidOrCentred(ch)) =>
    /\ \A x \in Dirs : ~HeldDirs[x]
    /\ \A m \in 1..4 : ~isComboModeActive(m)

(***************************************************************************)
(* Properties of the direction resolution (SpecCombo).                     *)
(***************************************************************************)
\* C34: the recognizer resolves the sticks to one direction, the same for a
\* toggle and for a momentary button: when a toggle edge (after a previous
\* valid reading) and a momentary press are detected in the same call of
\* updateComboHandler, their ids carry the same direction offset.
C34_OneDirection ==
  [][updateComboHandler =>
       \A t \in Toggles : \A m \in Momentaries :
         last_CH[t] # -1 /\ ButtonId(t).fired /\ ButtonId(m).fired =>
           ButtonId(t).combo - baseCombo(t) = ButtonId(m).combo - baseCombo(m)]_vars

(***************************************************************************)
(* Properties of the dome stick (SpecKill).                                *)
(***************************************************************************)
\* C35: in Manual and Carpet mode the magnitude of every dome command sent
\* to the dome motor is at most domeSpeedLimit (100).
C35_DomeWithinLimit ==
  /\ out.mode = 1 =>
       \A i \in DOMAIN out.dome : abs(out.dome[i]) <= ManualSettings.domeSpeedLimit
  /\ out.mode = 4 =>
       \A i \in DOMAIN out.dome : abs(out.dome[i]) <= CarpetSettings.domeSpeedLimit

(***************************************************************************)
(* SpecDrive: Manual or Hybrid mode is selected at power-up, the stick of  *)
(* controller B is released, and the drive stick of controller A (CH1,     *)
(* CH2) moves over its range while loop() runs.                            *)
(***************************************************************************)
InitDrive == \E m \in {1, 3} : Power(Select(m))

DriveInputs ==
  [ch \in Chans |->
     CASE ch = "ch2b" -> {1500}
       [] ch \in {"ch1a", "ch2a"} -> {1000, 1500, 1510, 2000}
       [] OTHER -> {}]

DriveSteps == {100}
MaxDriveMs == 100

LoopHybridDrive ==
  HybridLoop(AudioRandom(HybridMoveDelays, HybridMP3Delays)) /\ LoopRest

DriveEnv ==
  /\ pc = "mode"
  /\ \E ch \in Chans : \E v \in DriveInputs[ch] : EnvInput(ch, v)
  /\ UNCHANGED <<comboVars, loopVars, pc>>

DriveTime ==
  /\ pc = "mode"
  /\ \E dt \in DriveSteps : Advance(dt, MaxDriveMs)
  /\ UNCHANGED <<comboVars, loopVars, pc>>

NextDrive == LoopCombo \/ LoopManual \/ LoopHybridDrive \/ DriveEnv \/ DriveTime

SpecDrive == InitDrive /\ [][NextDrive]_vars

(***************************************************************************)
(* Properties of the drive mapping (SpecDrive).                            *)
(***************************************************************************)
\* the curved output of a channel value: map, then applyExpoCurve
CurvedOutput(v, p) ==
  applyExpoCurve(map(constrain(v, 1000, 2000), 1000, 2000, -127, 127),
                 p.expoCurve, p.speedLimit)

\* C36: a tick of the Manual or Hybrid loop (deadzone 0, expo 1, speed limit
\* 25) without kill: centred channels (1500, 1500) give drive 0 and turn 0, a
\* drive channel of 2000 gives drive 25, and for channel values in 1000..2000
\* drive and turn are at most the speed limit in magnitude and never have the
\* sign opposite to the stick deflection; a channel value of 2000 maps to raw
\* 127, and the curved output of every value in 1000..2000 is within the limit.
C36_DriveMapping ==
  [][\A m \in {1, 3} :
       pc = "mode" /\ pc' = "combo" /\ out'.ran /\ out'.mode = m /\ ~out'.kill =>
         LET rawTurn == ch_value("ch1a")
             rawDrive == ch_value("ch2a")
             p == IF m = 1 THEN ManualSettings ELSE HybridSettings
         IN  /\ p.deadZone = 0 /\ p.expoCurve = 10 /\ p.speedLimit = 25
             /\ rawTurn = 1500 /\ rawDrive = 1500 => out'.drive = 0 /\ out'.turn = 0
             /\ rawDrive = 2000 => out'.drive = 25
             /\ map(2000, 1000, 2000, -127, 127) = 127
             /\ rawTurn \in 1000..2000 /\ rawDrive \in 1000..2000 =>
                  /\ abs(out'.drive) <= p.speedLimit
                  /\ abs(out'.turn) <= p.speedLimit
                  /\ out'.drive * (rawDrive - 1500) >= 0
                  /\ out'.turn * (rawTurn - 1500) >= 0
             /\ \A v \in 1000..2000 :
                  /\ abs(CurvedOutput(v, p)) <= p.speedLimit
                  /\ CurvedOutput(v, p) * (v - 1500) >= 0]_vars

\* C36: a Hybrid tick without kill has sent the full drive command for a
\* drive channel of 2000
C36_Witness ==
  /\ pc = "combo" /\ out.ran /\ out.mode = 3 /\ ~out.kill
  /\ pwmIn.value["ch2a"] = 2000 /\ out.drive = 25

(***************************************************************************)
(* SpecBlock: Automated or Hybrid mode is selected at power-up; the mode   *)
(* loops return after the "delay(20);" that ends them.                     *)
(***************************************************************************)
\* "delay(20);" at the end of loopHybridMode and of loopAutomatedMode
LoopDelayMs == 20

MaxBlockMs == 400

InitBlock == \E m \in {2, 3} : Power(Select(m))

BlockInputs ==
  [ch \in Chans |->
     CASE ch = "ch2b" -> {1100, 1500}
       [] OTHER -> {}]

LoopAutomatedBlock ==
  /\ now + LoopDelayMs <= SetupMillis + MaxBlockMs
  /\ AutomatedLoop(AudioRandom(AutoMoveDelays, AutoMP3Delays))
  /\ LoopEndAfter("mode", LoopDelayMs)

LoopHybridBlock ==
  /\ now + LoopDelayMs <= SetupMillis + MaxBlockMs
  /\ HybridLoop(AudioRandom(HybridMoveDelays, HybridMP3Delays))
  /\ LoopEndAfter("mode", LoopDelayMs)

BlockEnv ==
  /\ pc = "mode"
  /\ \E ch \in Chans : \E v \in BlockInputs[ch] : EnvInput(ch, v)
  /\ UNCHANGED <<comboVars, loopVars, pc>>

NextBlock == LoopCombo \/ LoopAutomatedBlock \/ LoopHybridBlock \/ BlockEnv

SpecBlock == InitBlock /\ [][NextBlock]_vars

(***************************************************************************)
(* Properties of the loop timing (SpecBlock).                              *)
(***************************************************************************)
\* C37: no operation of the main loop blocks: the call of a mode loop returns
\* at the time it was called, it does not suspend loop() for a fixed delay.
C37_NoBlocking ==
  [][pc = "mode" /\ pc' = "combo" => now' = now]_vars

(***************************************************************************)
(* SpecPersist: the recognizer alone; from rest the operator holds the     *)
(* stick of controller B down, up or left and flips toggle CH3 or CH4 of   *)
(* controller A, and releases; time passes between the calls.              *)
(***************************************************************************)
PersistGestures ==
  {Gesture(stick[1], stick[2], button) :
     stick \in {<<"ch2b", 1100>>, <<"ch2b", 1900>>, <<"ch1b", 1100>>},
     button \in {"ch3a", "ch4a"}}

PersistSteps == {1200}
MaxPersistMs == 1200

PersistEnv ==
  /\ pc = "mode"
  /\ pc' = "combo"
  /\ \E s \in PersistGestures \cup {Centred} :
       /\ sig # s
       /\ sig = Centred \/ s = Centred
       /\ sig' = s
       /\ pwmIn' = Pulses(pwmIn, s, now)
  /\ UNCHANGED <<now, comboVars, loopVars>>

PersistTime ==
  /\ pc = "mode"
  /\ pc' = "combo"
  /\ \E dt \in PersistSteps : Advance(dt, MaxPersistMs)
  /\ UNCHANGED <<comboVars, loopVars>>

NextPersist == LoopCombo \/ PersistEnv \/ PersistTime

SpecPersist == Init /\ [][NextPersist]_vars

(***************************************************************************)
(* Properties of the mode (SpecPersist).                                   *)
(***************************************************************************)
\* C38: a call of updateComboHandler in which no combo id in 1..4 is detected
\* leaves currentMode unchanged, also when it accepts, rejects or expires an
\* action combo or changes the suppression flag.
C38_ModePersists ==
  [][updateComboHandler /\ ~(\E c \in 1..4 : Detected(c)) =>
       currentMode' = currentMode]_vars

\* C38: in Automated mode (selected before) a call has accepted combo 5 and
\* set the suppression flag
C38_Witness ==
  currentMode = 2 /\ currentCombo = 5 /\ ~mp3TriggersEnabled /\ pc = "mode"

(***************************************************************************)
(* SpecLeave: Manual, Hybrid or Carpet mode is selected at power-up; the   *)
(* operator drives with the stick of controller A and selects Automated    *)
(* mode (a stick down with toggle CH4 of controller A flipped) while       *)
(* loop() runs.  The sticks and the toggle move at any point of loop().    *)
(***************************************************************************)
InitLeave == \E m \in {1, 3, 4} : Power(Select(m))

LeaveInputs ==
  [ch \in Chans |->
     CASE ch = "ch2a" -> {1000, 1500}
       [] ch = "ch2b" -> {1100, 1500}
       [] ch = "ch4a" -> {1000, 2000}
       [] OTHER -> {}]

LeaveSteps == {100}
MaxLeaveMs == 100

LeaveEnv ==
  /\ \E ch \in Chans : \E v \in LeaveInputs[ch] : EnvInput(ch, v)
  /\ UNCHANGED <<comboVars, loopVars, pc>>

LeaveTime ==
  /\ pc = "mode"
  /\ \E dt \in LeaveSteps : Advance(dt, MaxLeaveMs)
  /\ UNCHANGED <<comboVars, loopVars, pc>>

NextLeave ==
  \/ LoopCombo \/ LoopManual \/ LoopCarpet \/ LoopHybridAudio \/ LoopAutomatedAudio
  \/ LeaveEnv \/ LeaveTime

SpecLeave == InitLeave /\ [][NextLeave]_vars

(***************************************************************************)
(* Properties of leaving a drive mode (SpecLeave).                         *)
(***************************************************************************)
\* C39: when a call of updateComboHandler switches from Manual, Carpet or
\* Hybrid mode to Automated mode, the drive and turn commands the last tick of
\* the mode left has sent are 0.
C39_LeaveNeutral ==
  [][updateComboHandler /\ currentMode \in {1, 3, 4} /\ currentMode' = 2
       /\ out.ran /\ out.mode = currentMode =>
         out.drive = 0 /\ out.turn = 0]_vars

(***************************************************************************)
(* SpecWrap: the droid has been in Automated mode for 49.7 days, the dome  *)
(* idle between two sequences with a move due, and millis() is about to    *)
(* wrap to 0; loop() runs while the clock passes 2^32 and the stick that   *)
(* makes the kill is pressed and released.                                 *)
(***************************************************************************)
\* the earliest start, in ms before the clock wraps
WrapLeadMs == 300
\* millis() is 2^32 - 300 or 2^32 - 200
WrapStarts == {UnsignedLong(-WrapLeadMs), UnsignedLong(-200)}
WrapSteps == {100}
MaxWrapMs == 600

\* the receivers of a droid left alone in Automated mode
WrapIdle == [Select(2) EXCEPT !["ch2b"] = 1500]

InitWrap ==
  /\ sig = WrapIdle
  /\ now \in WrapStarts
  /\ currentCombo = 0
  /\ currentMode = 2
  /\ lastCombo = 0
  /\ lastMode = 2
  /\ comboTimestamp = 0
  /\ last_CH = [ch \in Toggles |-> ToggleLast(WrapIdle[ch], -1)]
  /\ hasTriggered_CH6 = [ch \in Momentaries |-> [x \in Dirs |-> FALSE]]
  /\ mp3TriggersEnabled = TRUE
  /\ marc = ""
  /\ attached = setupPWMInputs(setupPWMInputs({}, 1), 1)
  /\ rd = ReadNone
  /\ pwmIn = Pulses([value |-> [ch \in IsrChans |-> 1500],
                      start |-> [ch \in IsrChans |-> 0]], WrapIdle, now)
  /\ manual = StickStatics
  /\ carpet = StickStatics
  /\ hybrid = HybridStatics
  /\ automated = [AutomatedStatics EXCEPT
                    !.lastMoveTime = now - 8000, !.nextMoveDelay = 8000,
                    !.lastMP3Time = now - 1000, !.nextMP3Delay = 20000,
                    !.domeEndTime = now - 8000 + 250, !.currentDomeSpeed = 25,
                    !.domeDirection = -1, !.lastMoveDirection = 1]
  /\ out = OutNone
  /\ lastMP3_CH = [ch \in Toggles |-> -1]
  /\ hasTriggeredMP3_CH6 = [ch \in Momentaries |-> FALSE]
  /\ lastTriggerTime = 0
  /\ mp3out = MP3None
  /\ pc = "combo"

WrapInputs ==
  [ch \in Chans |-> IF ch = "ch2b" THEN {1100, 1500} ELSE {}]

WrapEnv ==
  /\ pc = "mode"
  /\ \E ch \in Chans : \E v \in WrapInputs[ch] : EnvInput(ch, v)
  /\ UNCHANGED <<comboVars, loopVars, pc>>

\* millis() moves on, modulo 2^32
WrapTime ==
  /\ pc = "mode"
  /\ \E dt \in WrapSteps :
       /\ UnsignedLong(now + WrapLeadMs) + dt <= MaxWrapMs
       /\ now' = UnsignedLong(now + dt)
       /\ pwmIn' = Pulses(pwmIn, sig, UnsignedLong(now + dt))
  /\ UNCHANGED <<sig, comboVars, loopVars, pc>>

NextWrap == LoopCombo \/ LoopAutomatedAudio \/ WrapEnv \/ WrapTime

SpecWrap == InitWrap /\ [][NextWrap]_vars

(***************************************************************************)
(* Properties of the end of a dome move across the wrap of millis()        *)
(* (SpecWrap).                                                             *)
(***************************************************************************)
\* the time since the move in flight was started ("lastMoveTime = now;" is
\* executed at the start of the move) and the duration it was started with
MoveElapsed == UnsignedLong(now - automated.lastMoveTime)
MoveDuration == UnsignedLong(automated.domeEndTime - automated.lastMoveTime)

\* C40: a tick of Automated mode that runs the automation with a dome move
\* in flight issues the stop command exactly when at least the duration of
\* the move has passed since its start, counted modulo 2^32: not earlier when
\* now + duration has wrapped, and not a clock period later when the clock
\* has wrapped.
C40_StopAfterDuration ==
  [][pc = "mode" /\ pc' = "combo" /\ out'.ran /\ out'.mode = 2 /\ ~out'.kill
       /\ automated.domeMoving =>
         (out'.dome = <<0>> <=> ~ULess(MoveElapsed, MoveDuration))]_vars

====
